---- MODULE Spec2Model ----
(***************************************************************************)
(* Verification model of the phishing-detection discovery engine:          *)
(*   utils/validators.py, utils/rate_limiter.py, crawlers/base_crawler.py, *)
(*   crawlers/*.py (the seven discovery sources) and main.py's             *)
(*   run_discovery.                                                        *)
(*                                                                         *)
(* Python strings are sequences of one-character strings, so that          *)
(* strip(), lower(), split(), endswith() and the validation regex are      *)
(* computed character by character.                                        *)
(***************************************************************************)
EXTENDS Integers, Sequences, FiniteSets, TLC

VARIABLES
    \* ---- persistent repository (database/models.py)
    domain_table,     \* discovered_domains rows, in insertion order
    crawler_logs,     \* crawler_logs rows, index = id
    \* ---- crawler instances (BaseCrawler.__init__)
    domains_found,    \* crawler name -> self.domains_found
    log_id,           \* crawler name -> self.log_id (0: None)
    \* ---- concurrent save_domain writers
    wpc,              \* writer -> "idle" | "checked"
    wentry,           \* writer -> the domain_entry built at lines 94-104
    wcall,            \* writer -> record of its current / last save_domain call
    true_returns,     \* raw spellings whose save returned True, in order
    nsaves,           \* number of save_domain calls started
    \* ---- run_discovery and BaseCrawler.run
    opc,              \* "idle" | "loop" (between sources) | "run" (inside run)
    targets,          \* the target list of this run_discovery
    ci,               \* index of the current crawler in self.crawlers
    ti,               \* index of the current target in cse_targets
    errors,           \* run()'s local error list
    total_found,      \* run_discovery's running total
    rh,               \* history of the current / last run() call
    dh,               \* history of the current / last run_discovery call
    final_count,      \* log id -> number of steps that rewrote a finalized-able row
    \* ---- one RateLimiter shared by threads (utils/rate_limiter.py)
    now,              \* the clock time.time() reads
    timestamps,       \* self.timestamps
    lock,             \* self.lock: 0 when free, else the thread holding it
    tpc,              \* thread -> "out" | "waiting" | "sleeping"
    tcur,             \* thread -> its local current_time
    tsleep,           \* thread -> its local sleep_time
    recorded,         \* every timestamp ever appended, in order
    le,               \* thread -> history of its current / last __enter__
    \* ---- one crawl() call of one discovery source
    crawl_out,        \* the last crawl: its source, target, inputs and result
    \* ---- one CertTransparencyCrawler instance (crawlers/cert_transparency.py)
    cert_queue,       \* self.cert_queue, oldest event first
    stop_monitoring,  \* self.stop_monitoring
    retry_count,      \* self.retry_count
    ct_now,           \* the clock datetime.now() and the timeouts read
    c_pc,             \* consumer (crawl): "idle" | "loop" | "pulling" | "joining"
    c_timeout,        \* crawl's local `timeout`
    c_start,          \* crawl's local start_time
    c_wait_at,        \* when the pending queue.get / join began
    c_discovered,     \* crawl's local `discovered`
    sub_pc,           \* subscriber thread -> "unborn" | "while" | "listen" |
                      \*   "cb_put" | "backoff" | "dead"
    sub_wake,         \* subscriber thread -> end of its time.sleep
    cb_event,         \* subscriber thread -> the event its callback holds
    feed,             \* what the feed has done: events sent, breaks, returns
    queue_h,               \* history of the queue: pushed, pulled, dropped
    crawl_h,               \* history of the current / last crawl
    sub_h,               \* subscriber thread -> history of its _monitor_ct_logs
    \* ---- TyposquatGenerator.generate_all_variants (generators/typosquat.py)
    proc,             \* the interpreter process (its hash seed)
    gen_in,           \* the arguments of generate_all_variants
    gen_out,          \* the last generate_all_variants call and its result
    prev_out,         \* the call before it
    \* ---- DorkingCrawler instance and its crawl (crawlers/dorking_crawler.py)
    google_enabled,   \* self.google_enabled
    google_used,      \* crawl's local google_used
    dork_pc,          \* "idle" or, inside crawl's query loop, "loop"
    dork_queries,     \* the dork queries of the crawl still to run
    dork_crawls,      \* crawl calls made on the instance
    dork_h            \* history: engines queried and signals seen

repoVars == <<domain_table, crawler_logs, domains_found, log_id>>
saveVars == <<wpc, wentry, wcall, true_returns, nsaves>>
runVars == <<opc, targets, ci, ti, errors, total_found, rh, dh, final_count>>

rlVars == <<now, timestamps, lock, tpc, tcur, tsleep, recorded, le>>

crawlVars == <<crawl_out>>

ctVars == <<cert_queue, stop_monitoring, retry_count, ct_now, c_pc, c_timeout,
           c_start, c_wait_at, c_discovered, sub_pc, sub_wake, cb_event, feed,
           queue_h, crawl_h, sub_h>>
genVars == <<proc, gen_in, gen_out, prev_out>>
dorkVars == <<google_enabled, google_used, dork_pc, dork_queries, dork_crawls,
             dork_h>>

vars == <<repoVars, saveVars, runVars, rlVars, crawlVars, ctVars, genVars,
          dorkVars>>

(***************************************************************************)
(* Characters and strings                                                  *)
(***************************************************************************)
LowerSeq == <<"a","b","c","d","e","f","g","h","i","j","k","l","m",
              "n","o","p","q","r","s","t","u","v","w","x","y","z">>
UpperSeq == <<"A","B","C","D","E","F","G","H","I","J","K","L","M",
              "N","O","P","Q","R","S","T","U","V","W","X","Y","Z">>
Lowers == {LowerSeq[i] : i \in DOMAIN LowerSeq}
Uppers == {UpperSeq[i] : i \in DOMAIN UpperSeq}
Digits == {"0","1","2","3","4","5","6","7","8","9"}
Letters == Lowers \cup Uppers
Alnum == Letters \cup Digits
\* the ASCII characters str.strip() removes
Whitespace == {" ", "\t", "\n", "\r"}

\* Python's None where a string is expected (dict.get of a missing key)
NoneStr == <<"<None>">>

\* str.lower() on one ASCII character
LowerOf ==
    [c \in Uppers |-> LowerSeq[CHOOSE i \in DOMAIN UpperSeq : UpperSeq[i] = c]]
LowerChar(c) == IF c \in Uppers THEN LowerOf[c] ELSE c

\* str.lower()
StrLower(s) == [i \in DOMAIN s |-> LowerChar(s[i])]

\* str.strip(): drop leading and trailing whitespace
StrStrip(s) ==
    LET keep == {i \in DOMAIN s : s[i] \notin Whitespace}
    IN  IF keep = {} THEN <<>>
        ELSE LET lo == CHOOSE i \in keep : \A j \in keep : i <= j
                 hi == CHOOSE i \in keep : \A j \in keep : j <= i
             IN  SubSeq(s, lo, hi)

\* str.endswith(suffix)
EndsWith(s, suffix) ==
    /\ Len(suffix) <= Len(s)
    /\ SubSeq(s, Len(s) - Len(suffix) + 1, Len(s)) = suffix

\* str.startswith(prefix)
StartsWith(s, prefix) ==
    /\ Len(prefix) <= Len(s)
    /\ SubSeq(s, 1, Len(prefix)) = prefix

\* `sub in s` for strings
Contains(s, sub) ==
    \E i \in 0..(Len(s) - Len(sub)) : SubSeq(s, i + 1, i + Len(sub)) = sub

\* str.split(sep) for a one-character separator
RECURSIVE StrSplit(_, _)
StrSplit(s, sep) ==
    LET hits == {i \in DOMAIN s : s[i] = sep}
    IN  IF hits = {} THEN <<s>>
        ELSE LET i == CHOOSE k \in hits : \A j \in hits : k <= j
             IN  <<SubSeq(s, 1, i - 1)>> \o StrSplit(SubSeq(s, i + 1, Len(s)), sep)

(***************************************************************************)
(* utils/validators.py                                                     *)
(***************************************************************************)
\* one `[a-zA-Z0-9](?:[a-zA-Z0-9-]{0,61}[a-zA-Z0-9])?` label of domain_regex
RegexLabel(l) ==
    /\ Len(l) >= 1
    /\ Len(l) <= 63
    /\ l[1] \in Alnum
    /\ l[Len(l)] \in Alnum
    /\ \A i \in DOMAIN l : l[i] \in Alnum \cup {"-"}

\* the `[a-zA-Z]{2,63}` tail of domain_regex
RegexTld(l) ==
    /\ Len(l) >= 2
    /\ Len(l) <= 63
    /\ \A i \in DOMAIN l : l[i] \in Letters

\* ^(?:label\.)+tld with the match ending at the end of s
RegexBody(s) ==
    LET parts == StrSplit(s, ".")
    IN  /\ Len(parts) >= 2
        /\ \A i \in 1..(Len(parts) - 1) : RegexLabel(parts[i])
        /\ RegexTld(parts[Len(parts)])

\* re.match(domain_regex, s): `$` also matches just before a final newline
RegexMatch(s) ==
    \/ RegexBody(s)
    \/ /\ Len(s) >= 1
       /\ s[Len(s)] = "\n"
       /\ RegexBody(SubSeq(s, 1, Len(s) - 1))

is_valid_domain(domain) ==
    IF domain = NoneStr \/ domain = <<>> \/ Len(domain) > 255
    THEN FALSE
    ELSE RegexMatch(domain)

\* normalize_domain without strip()
NormalizeLowerOnly(domain) ==
    IF domain = NoneStr \/ domain = <<>>
    THEN <<>>
    ELSE StrLower(domain)

normalize_domain(domain) ==
    IF domain = NoneStr \/ domain = <<>>
    THEN <<>>
    ELSE StrLower(StrStrip(domain))

(***************************************************************************)
(* Sample inputs                                                           *)
(***************************************************************************)
ex_co    == <<"e","x",".","c","o">>
EX_co    == <<"E","X",".","c","o">>
ex_co_sp == <<"e","x",".","c","o"," ">>
ab_co    == <<"a","b",".","c","o">>
bad_name == <<"-","x",".","c","o">>

\* domain_name values a candidate may carry (None: the key is missing)
Spellings == {ex_co, EX_co, ex_co_sp, ab_co, bad_name, <<>>, NoneStr}
Urls == {"u1", "u2"}

\* candidate records handed to save_domain
Candidates ==
    [domain_name : Spellings, url : Urls, target_cse_name : {"T1"}]

\* the two crawler instances writing concurrently
Writers == {"web_search", "whois"}

\* number of save_domain calls explored
MaxSaves == 3

(***************************************************************************)
(* crawlers/base_crawler.py: save_domain                                   *)
(***************************************************************************)
\* session.query(DiscoveredDomain).filter_by(domain_name=...).first()
Existing(table, domain_name) ==
    \E i \in DOMAIN table : table[i].domain_name = domain_name

\* DiscoveredDomain(...) built from domain_data
BuildEntry(self_name, domain_name, domain_data) ==
    [domain_name         |-> domain_name,
     url                 |-> domain_data.url,
     target_cse_name     |-> domain_data.target_cse_name,
     source_of_detection |-> self_name]

\* session.add + session.commit without the unique index
CommitNoUniqueIndex(table, entry, fault) ==
    IF fault
    THEN [ok |-> FALSE, table |-> table]
    ELSE [ok |-> TRUE, table |-> Append(table, entry)]

\* session.add + session.commit: the repository rejects the insert when it
\* fails (fault) or when the unique index on domain_name is violated
CommitInsert(table, entry, fault) ==
    IF fault \/ (\E i \in DOMAIN table : table[i].domain_name = entry.domain_name)
    THEN [ok |-> FALSE, table |-> table]
    ELSE [ok |-> TRUE, table |-> Append(table, entry)]

\* an except clause that lets the exception out
SaveExceptPropagates == "raise"

\* `except Exception as e: ... return False`
SaveExcept == "False"

\* the whole of save_domain, as run() calls it on one thread
save_domain(table, found, self_name, domain_data, fault) ==
    LET domain_name == normalize_domain(domain_data.domain_name)
    IN  IF ~is_valid_domain(domain_name)
        THEN [ret |-> "False", table |-> table, found |-> found]
        ELSE IF Existing(table, domain_name)
        THEN [ret |-> "False", table |-> table, found |-> found]
        ELSE LET c == CommitInsert(table,
                          BuildEntry(self_name, domain_name, domain_data), fault)
             IN  IF c.ok
                 THEN [ret |-> "True", table |-> c.table,
                       found |-> Append(found, domain_name)]
                 ELSE [ret |-> SaveExcept, table |-> table, found |-> found]

NoCall ==
    [raw |-> NoneStr, url |-> "u1", norm |-> <<>>, ret |-> "none",
     fault |-> FALSE, raced |-> FALSE, before |-> <<>>, after |-> <<>>]

\* save_domain up to the existence check (lines 73-104)
SaveBegin(w, cand) ==
    /\ wpc[w] = "idle"
    /\ nsaves < MaxSaves
    /\ nsaves' = nsaves + 1
    /\ LET dn == normalize_domain(cand.domain_name)
           call == [raw |-> cand.domain_name, url |-> cand.url, norm |-> dn,
                    ret |-> "pending", fault |-> FALSE, raced |-> FALSE,
                    before |-> domain_table, after |-> domain_table]
       IN  IF ~is_valid_domain(dn) \/ Existing(domain_table, dn)
           THEN /\ wcall' = [wcall EXCEPT ![w] = [call EXCEPT !.ret = "False"]]
                /\ UNCHANGED <<wpc, wentry>>
           ELSE /\ wpc' = [wpc EXCEPT ![w] = "checked"]
                /\ wentry' = [wentry EXCEPT ![w] = BuildEntry(w, dn, cand)]
                /\ wcall' =
                     [v \in Writers |->
                        IF v = w
                        THEN [call EXCEPT !.raced =
                                \E u \in Writers \ {w} :
                                    /\ wpc[u] = "checked"
                                    /\ wentry[u].domain_name = dn]
                        ELSE IF wpc[v] = "checked" /\ wentry[v].domain_name = dn
                        THEN [wcall[v] EXCEPT !.raced = TRUE]
                        ELSE wcall[v]]
    /\ UNCHANGED <<domain_table, domains_found, true_returns, crawler_logs, log_id>>
    /\ UNCHANGED <<runVars, rlVars, crawlVars, ctVars, genVars, dorkVars>>

\* save_domain from session.add to its return (lines 106-116)
SaveCommit(w, fault) ==
    /\ wpc[w] = "checked"
    /\ LET c == CommitInsert(domain_table, wentry[w], fault)
           ret == IF c.ok THEN "True" ELSE SaveExcept
       IN  /\ domain_table' = c.table
           /\ domains_found' = IF c.ok
                        THEN [domains_found EXCEPT ![w] = Append(@, wentry[w].domain_name)]
                        ELSE domains_found
           /\ true_returns' = IF ret = "True"
                              THEN Append(true_returns, wcall[w].raw)
                              ELSE true_returns
           /\ wcall' = [wcall EXCEPT ![w] =
                          [@ EXCEPT !.ret = ret,
                                    !.fault = fault,
                                    !.before = domain_table,
                                    !.after = c.table]]
    /\ wpc' = [wpc EXCEPT ![w] = "idle"]
    /\ UNCHANGED <<wentry, nsaves, crawler_logs, log_id>>
    /\ UNCHANGED <<runVars, rlVars, crawlVars, ctVars, genVars, dorkVars>>

(***************************************************************************)
(* crawlers/base_crawler.py: start_logging, end_logging, run               *)
(* main.py: run_discovery                                                  *)
(***************************************************************************)
\* the sources in the order _initialize_crawlers appends them
CrawlerOrder ==
    <<"web_search", "whois", "cert_transparency", "social_media",
      "paste_sites", "tunnel_services", "dorking">>
CrawlerNames == {CrawlerOrder[i] : i \in DOMAIN CrawlerOrder}

\* how many of the sources are configured
NumCrawlers == 2
\* self.crawlers
crawlers == SubSeq(CrawlerOrder, 1, NumCrawlers)

\* longest target list, longest list one crawl returns, run() calls explored
MaxTargets == 2
MaxCands == 2
MaxRuns == 3

\* a target profile as run() reads it: cse['name'] raises KeyError without it
TargetKinds == {[name |-> "T1", has_name |-> TRUE],
                [name |-> "",   has_name |-> FALSE]}

\* the elements of a sequence
Range(seq) == {seq[i] : i \in DOMAIN seq}

RECURSIVE SeqsUpTo(_, _)
SeqsUpTo(S, n) ==
    IF n = 0 THEN {<<>>}
    ELSE LET shorter == SeqsUpTo(S, n - 1)
         IN  shorter \cup {Append(q, x) : q \in {r \in shorter : Len(r) = n - 1}, x \in S}

TargetLists == SeqsUpTo(TargetKinds, MaxTargets) \ {<<>>}

\* what crawl(cse) may do for one target: raise, or return candidates, each
\* of whose inserts the repository may fail
RunSpellings == {ex_co, EX_co, ab_co}
RunFindings == SeqsUpTo([domain_name : RunSpellings, url : {"u1"}], MaxCands)
CrawlOutcomes(cse) ==
    {[raised |-> TRUE, discovered |-> <<>>, faults |-> <<>>]}
    \cup
    UNION {
      {[raised |-> FALSE,
        discovered |-> [i \in DOMAIN d |->
                          [domain_name |-> d[i].domain_name, url |-> <<d[i].url, i>>,
                           target_cse_name |-> cse.name]],
        faults |-> f] :
          f \in [1..Len(d) -> BOOLEAN]} :
      d \in RunFindings}

\* the crawler object as the methods see it
Self(c) == [name |-> c, log_id |-> log_id[c], domains_found |-> domains_found[c]]

\* start_logging: insert a 'running' row; its id becomes self.log_id
start_logging(logs, self) ==
    LET row == [crawler_name |-> self.name, status |-> "running",
                domains_discovered |-> 0, errors_encountered |-> 0,
                error_details |-> <<>>]
    IN  [logs |-> Append(logs, row), log_id |-> Len(logs) + 1]

\* end_logging that finalizes every row of this crawler's name
EndLoggingByName(logs, self, status, errs) ==
    [i \in DOMAIN logs |->
        IF logs[i].crawler_name = self.name
        THEN [logs[i] EXCEPT !.status = status,
                             !.domains_discovered = Len(self.domains_found),
                             !.errors_encountered = Len(errs),
                             !.error_details = errs]
        ELSE logs[i]]

\* end_logging that never writes
EndLoggingSkipped(logs, self, status, errs) == logs

\* end_logging: finalize the row whose id is self.log_id
end_logging(logs, self, status, errs) ==
    IF self.log_id = 0
    THEN logs
    ELSE IF self.log_id \in DOMAIN logs
    THEN [logs EXCEPT ![self.log_id] =
            [@ EXCEPT !.status = status,
                      !.domains_discovered = Len(self.domains_found),
                      !.errors_encountered = IF errs # <<>> THEN Len(errs) ELSE 0,
                      !.error_details = errs]]
    ELSE logs

\* a loop that hands the candidates to save_domain last one first
RECURSIVE SaveAllLastFirst(_, _, _, _, _)
SaveAllLastFirst(table, found, self_name, discovered, faults) ==
    IF discovered = <<>>
    THEN [table |-> table, found |-> found]
    ELSE LET n == Len(discovered)
             r == save_domain(table, found, self_name, discovered[n], faults[n])
         IN  SaveAllLastFirst(r.table, r.found, self_name,
                              SubSeq(discovered, 1, n - 1), SubSeq(faults, 1, n - 1))

\* a loop that a failing save_domain ends
RECURSIVE SaveAllUntilFailure(_, _, _, _, _)
SaveAllUntilFailure(table, found, self_name, discovered, faults) ==
    IF discovered = <<>> \/ Head(faults)
    THEN [table |-> table, found |-> found]
    ELSE LET r == save_domain(table, found, self_name, Head(discovered), Head(faults))
         IN  SaveAllUntilFailure(r.table, r.found, self_name,
                                 Tail(discovered), Tail(faults))

\* `for domain_data in discovered: self.save_domain(domain_data)`
RECURSIVE SaveAll(_, _, _, _, _)
SaveAll(table, found, self_name, discovered, faults) ==
    IF discovered = <<>>
    THEN [table |-> table, found |-> found]
    ELSE LET r == save_domain(table, found, self_name, Head(discovered), Head(faults))
         IN  SaveAll(r.table, r.found, self_name, Tail(discovered), Tail(faults))

\* lines 142-145: `errors.append(error_msg)`
RecordError(errs, cse) == Append(errs, cse.name)

\* a per-target handler that gives up on the remaining targets
StopAfterError(i, n) == n + 1

\* the for loop goes on with the next target after the per-target handler
NextTargetAfterError(i, n) == i + 1

\* an orchestrator that stops at the first failing source
StopAfterFailedSource(i, n) == n + 1

\* main.py 106-107: the failure is logged and the loop goes on
NextSourceAfterFailure(i, n) == i + 1

\* how many rows differ between two versions of crawler_logs
Rewritten(old, new, i) == i \in DOMAIN old /\ new[i] # old[i]

NoRun ==
    [crawler |-> "", log |-> 0, cse_targets |-> <<>>, crawled |-> <<>>,
     raised_at |-> <<>>, outcome |-> "none", summary_found |-> -1,
     summary_errors |-> -1, found_before |-> 0, table_before |-> 0,
     last_discovered |-> <<>>, last_faults |-> <<>>]
NoDiscovery ==
    [invoked |-> <<>>, run_raised |-> {}, returned |-> -1]

\* run_discovery, lines 92-98
RunDiscovery(tl) ==
    /\ opc = "idle"
    /\ Len(crawler_logs) < MaxRuns
    /\ targets' = tl
    /\ total_found' = 0
    /\ ci' = 1
    /\ opc' = "loop"
    /\ dh' = NoDiscovery
    /\ rh' = NoRun
    /\ UNCHANGED <<ti, errors, final_count>>
    /\ UNCHANGED <<repoVars, saveVars, rlVars, crawlVars, ctVars, genVars, dorkVars>>

\* run_discovery line 102 calling run(); run lines 128-129
StartRun ==
    /\ opc = "loop"
    /\ ci <= Len(crawlers)
    /\ Len(crawler_logs) < MaxRuns
    /\ LET c == crawlers[ci]
           s == start_logging(crawler_logs, Self(c))
       IN  /\ crawler_logs' = s.logs
           /\ log_id' = [log_id EXCEPT ![c] = s.log_id]
           /\ final_count' = Append(final_count, 0)
           /\ rh' = [NoRun EXCEPT !.crawler = c, !.log = Len(crawler_logs) + 1,
                                  !.outcome = "running",
                                  !.cse_targets = targets,
                                  !.found_before = Len(domains_found[c]),
                                  !.table_before = Len(domain_table)]
           /\ dh' = [dh EXCEPT !.invoked = Append(@, c)]
    /\ errors' = <<>>
    /\ ti' = 1
    /\ opc' = "run"
    /\ UNCHANGED <<domain_table, domains_found, targets, ci, total_found>>
    /\ UNCHANGED <<saveVars, rlVars, crawlVars, ctVars, genVars, dorkVars>>

\* one pass of run()'s for loop whose target has a name: lines 132-145
CrawlTarget ==
    /\ opc = "run"
    /\ ti <= Len(targets)
    /\ targets[ti].has_name
    /\ \E o \in CrawlOutcomes(targets[ti]) :
         LET c == crawlers[ci] IN
         IF o.raised
         THEN /\ errors' = RecordError(errors, targets[ti])
              /\ ti' = NextTargetAfterError(ti, Len(targets))
              /\ rh' = [rh EXCEPT !.crawled = Append(@, ti),
                                  !.raised_at = Append(@, ti),
                                  !.last_discovered = <<>>,
                                  !.last_faults = <<>>]
              /\ UNCHANGED <<domain_table, domains_found>>
         ELSE LET r == SaveAll(domain_table, domains_found[c], c,
                               o.discovered, o.faults)
              IN  /\ domain_table' = r.table
                  /\ domains_found' = [domains_found EXCEPT ![c] = r.found]
                  /\ ti' = ti + 1
                  /\ rh' = [rh EXCEPT !.crawled = Append(@, ti),
                                      !.last_discovered = o.discovered,
                                      !.last_faults = o.faults]
                  /\ UNCHANGED errors
    /\ UNCHANGED <<crawler_logs, log_id, opc, targets, ci, total_found, dh,
                   final_count>>
    /\ UNCHANGED <<saveVars, rlVars, crawlVars, ctVars, genVars, dorkVars>>

\* cse['name'] raises at line 133, outside the per-target try: lines 149-152,
\* then run_discovery's except, main.py 106-107
EscapeLoop ==
    /\ opc = "run"
    /\ ti <= Len(targets)
    /\ ~targets[ti].has_name
    /\ LET c == crawlers[ci]
           logs2 == end_logging(crawler_logs, Self(c), "failed", <<"KeyError">>)
       IN  /\ crawler_logs' = logs2
           /\ final_count' = [i \in DOMAIN final_count |->
                                 IF Rewritten(crawler_logs, logs2, i)
                                 THEN final_count[i] + 1 ELSE final_count[i]]
           /\ rh' = [rh EXCEPT !.outcome = "raised"]
           /\ dh' = [dh EXCEPT !.run_raised = @ \cup {c}]
    /\ ci' = NextSourceAfterFailure(ci, Len(crawlers))
    /\ opc' = "loop"
    /\ UNCHANGED <<domain_table, domains_found, log_id, targets, ti, errors,
                   total_found>>
    /\ UNCHANGED <<saveVars, rlVars, crawlVars, ctVars, genVars, dorkVars>>

\* the for loop is exhausted: lines 147 and 154-159, then main.py 103-105
FinishRun ==
    /\ opc = "run"
    /\ ti > Len(targets)
    /\ LET c == crawlers[ci]
           logs2 == end_logging(crawler_logs, Self(c), "completed", errors)
           summary == [crawler |-> c, domains_found |-> Len(domains_found[c]),
                       cses_processed |-> Len(targets), errors |-> Len(errors)]
       IN  /\ crawler_logs' = logs2
           /\ final_count' = [i \in DOMAIN final_count |->
                                 IF Rewritten(crawler_logs, logs2, i)
                                 THEN final_count[i] + 1 ELSE final_count[i]]
           /\ rh' = [rh EXCEPT !.outcome = "returned",
                               !.summary_found = summary.domains_found,
                               !.summary_errors = summary.errors]
           /\ total_found' = total_found + summary.domains_found
    /\ ci' = ci + 1
    /\ opc' = "loop"
    /\ UNCHANGED <<domain_table, domains_found, log_id, targets, ti, errors, dh>>
    /\ UNCHANGED <<saveVars, rlVars, crawlVars, ctVars, genVars, dorkVars>>

\* run_discovery after its last source: lines 109-110
EndDiscovery ==
    /\ opc = "loop"
    /\ ci > Len(crawlers)
    /\ dh' = [dh EXCEPT !.returned = total_found]
    /\ opc' = "idle"
    /\ UNCHANGED <<targets, ci, ti, errors, total_found, rh, final_count>>
    /\ UNCHANGED <<repoVars, saveVars, rlVars, crawlVars, ctVars, genVars, dorkVars>>

(***************************************************************************)
(* The seven discovery sources: crawlers/web_search.py, dorking_crawler.py, *)
(* whois_crawler.py, cert_transparency.py, paste_sites.py, social_media.py, *)
(* tunnel_services.py, and utils/validators.py extract_domain_from_url      *)
(***************************************************************************)
\* Python truthiness of an optional string: None and "" are falsy
Falsy(x) == x = NoneStr \/ x = <<>>

RECURSIVE Flatten(_)
Flatten(ss) == IF ss = <<>> THEN <<>> ELSE Head(ss) \o Flatten(Tail(ss))

\* str.split(sep) for a separator of any length
RECURSIVE StrSplitOn(_, _)
StrSplitOn(x, sep) ==
    LET hits == {i \in 1..(Len(x) - Len(sep) + 1) :
                    SubSeq(x, i, i + Len(sep) - 1) = sep}
    IN  IF hits = {} THEN <<x>>
        ELSE LET i == CHOOSE k \in hits : \A j \in hits : k <= j
             IN  <<SubSeq(x, 1, i - 1)>>
                     \o StrSplitOn(SubSeq(x, i + Len(sep), Len(x)), sep)

\* sep.join(parts)
RECURSIVE StrJoin(_, _)
StrJoin(parts, sep) ==
    IF parts = <<>> THEN <<>>
    ELSE IF Len(parts) = 1 THEN parts[1]
    ELSE parts[1] \o sep \o StrJoin(Tail(parts), sep)

\* str.replace(ch, '')
StrRemove(x, ch) == SelectSeq(x, LAMBDA c : c # ch)

HttpPrefix == <<"h","t","t","p",":","/","/">>
HttpsPrefix == <<"h","t","t","p","s",":","/","/">>

\* urlparse(url).netloc of a url that starts with http:// or https://
UrlNetloc(url) ==
    LET rest == IF StartsWith(url, HttpsPrefix)
                THEN SubSeq(url, Len(HttpsPrefix) + 1, Len(url))
                ELSE SubSeq(url, Len(HttpPrefix) + 1, Len(url))
        stops == {i \in DOMAIN rest : rest[i] \in {"/", "?", "#"}}
    IN  IF stops = {} THEN rest
        ELSE SubSeq(rest, 1, (CHOOSE k \in stops : \A j \in stops : k <= j) - 1)

extract_domain_from_url(url) ==
    IF Falsy(url) THEN NoneStr
    ELSE LET u == IF StartsWith(url, HttpPrefix) \/ StartsWith(url, HttpsPrefix)
                  THEN url ELSE HttpPrefix \o url
         IN  StrLower(Head(StrSplit(UrlNetloc(u), ":")))

\* [target_cse['primary_domain']] + target_cse.get('additional_domains', [])
LegitimateDomains(target_cse) ==
    <<target_cse.primary_domain>> \o target_cse.additional_domains

\* any(kw.lower() in domain.lower() for kw in keywords)
KeywordIn(domain, target_cse) ==
    \E k \in DOMAIN target_cse.keywords :
        Contains(StrLower(domain), StrLower(target_cse.keywords[k]))

\* `domain == legit or domain.endswith(f".{legit}")` for some legit
MatchesLegit(domain, target_cse) ==
    \E i \in DOMAIN LegitimateDomains(target_cse) :
        LET legit == LegitimateDomains(target_cse)[i]
        IN  domain = legit \/ EndsWith(domain, <<".">> \o legit)

\* WebSearchCrawler._is_suspicious
web_is_suspicious(domain, target_cse) ==
    IF Falsy(domain) THEN FALSE
    ELSE IF MatchesLegit(domain, target_cse) THEN FALSE
    ELSE KeywordIn(domain, target_cse)

\* PasteSitesCrawler._is_suspicious_domain
paste_is_suspicious_domain(domain, target_cse) ==
    IF Falsy(domain) THEN FALSE
    ELSE IF MatchesLegit(domain, target_cse) THEN FALSE
    ELSE KeywordIn(domain, target_cse)

\* SocialMediaCrawler._is_suspicious_domain
social_is_suspicious_domain(domain, target_cse) ==
    IF Falsy(domain) THEN FALSE
    ELSE IF MatchesLegit(domain, target_cse) THEN FALSE
    ELSE KeywordIn(domain, target_cse)

\* DorkingCrawler._is_suspicious_domain: both sides are lowercased
dorking_is_suspicious_domain(domain, target_cse) ==
    IF Falsy(domain) THEN FALSE
    ELSE IF \E i \in DOMAIN LegitimateDomains(target_cse) :
               LET legit == StrLower(LegitimateDomains(target_cse)[i])
               IN  \/ StrLower(domain) = legit
                   \/ EndsWith(StrLower(domain), <<".">> \o legit)
    THEN FALSE
    ELSE KeywordIn(domain, target_cse)

\* CertTransparencyCrawler._is_legitimate_domain
cert_is_legitimate_domain(domain, target_cse) == MatchesLegit(domain, target_cse)

\* a candidate as crawl() returns it
Found(domain, url, target_cse) ==
    [domain_name |-> domain, url |-> url, target_cse_name |-> target_cse.name]

\* WebSearchCrawler.crawl over the search results of all its queries
web_search_crawl(target_cse, results) ==
    LET hit(url) == web_is_suspicious(extract_domain_from_url(url), target_cse)
        kept == SelectSeq(results, hit)
    IN  [i \in DOMAIN kept |->
            Found(extract_domain_from_url(kept[i]), kept[i], target_cse)]

\* DorkingCrawler.crawl over the result urls of all engines and queries
dorking_crawl(target_cse, results) ==
    LET hit(url) ==
            LET domain == extract_domain_from_url(url)
            IN  /\ ~Falsy(domain)
                /\ is_valid_domain(domain)
                /\ dorking_is_suspicious_domain(domain, target_cse)
        kept == SelectSeq(results, hit)
    IN  [i \in DOMAIN kept |->
            Found(extract_domain_from_url(kept[i]), kept[i], target_cse)]

\* url_pattern.findall(content): the tokens of a paste that are urls
PasteUrls(content) ==
    SelectSeq(content, LAMBDA w : StartsWith(w, HttpPrefix) \/ StartsWith(w, HttpsPrefix))

\* PasteSitesCrawler.crawl over the contents of the recent pastes; a paste is
\* a sequence of whitespace-separated tokens
paste_crawl(target_cse, pastes) ==
    LET keyword_match(content) ==
            \E w \in DOMAIN content : KeywordIn(content[w], target_cse)
        hit(url) ==
            LET domain == extract_domain_from_url(url)
            IN  ~Falsy(domain) /\ paste_is_suspicious_domain(domain, target_cse)
        per(content) ==
            IF content # <<>> /\ keyword_match(content)
            THEN SelectSeq(PasteUrls(content), hit)
            ELSE <<>>
        kept == Flatten([p \in DOMAIN pastes |-> per(pastes[p])])
    IN  [i \in DOMAIN kept |->
            Found(extract_domain_from_url(kept[i]), kept[i], target_cse)]

\* SocialMediaCrawler._search_social_mentions returns its empty list
search_social_mentions(term) == <<>>

\* SocialMediaCrawler.crawl
social_crawl(target_cse) ==
    LET urls == Flatten([k \in DOMAIN target_cse.keywords |->
                            search_social_mentions(target_cse.keywords[k])])
        hit(url) ==
            LET domain == extract_domain_from_url(url)
            IN  ~Falsy(domain) /\ social_is_suspicious_domain(domain, target_cse)
        kept == SelectSeq(urls, hit)
    IN  [i \in DOMAIN kept |->
            Found(extract_domain_from_url(kept[i]), kept[i], target_cse)]

\* CertTransparencyCrawler.crawl over the certificates taken from the queue;
\* a certificate is its all_domains list
cert_crawl(target_cse, certs) ==
    LET hit(domain) ==
            /\ KeywordIn(domain, target_cse)
            /\ ~cert_is_legitimate_domain(domain, target_cse)
        kept == Flatten([c \in DOMAIN certs |-> SelectSeq(certs[c], hit)])
    IN  [i \in DOMAIN kept |->
            Found(kept[i], HttpsPrefix \o kept[i], target_cse)]

\* what the registration source holds for a name: a record whose creation
\* date is missing, cannot be parsed, or lies so many days back
WhoisRecords ==
    {[found |-> TRUE, creation_date |-> "None", age_days |-> 0],
     [found |-> TRUE, creation_date |-> "unparseable", age_days |-> 0],
     [found |-> TRUE, creation_date |-> "date", age_days |-> 90],
     [found |-> TRUE, creation_date |-> "date", age_days |-> 91]}

\* the registration sources over some of the names
Registries(names) == UNION {[S -> WhoisRecords] : S \in SUBSET names}

\* the names bound at module level in whois_crawler.py (lines 1-7)
WhoisModuleNames ==
    {"whois", "dns", "List", "Dict", "Optional", "BaseCrawler",
     "TyposquatGenerator", "socket", "datetime", "timedelta"}

\* the None that _get_whois_data returns from its except clause
NoWhoisData == [found |-> FALSE, creation_date |-> "None", age_days |-> 0]

\* WHOISCrawler._get_whois_data: `time.sleep(1.2)` comes first and raises
\* NameError when the module has no name `time`; the except clause returns
\* None, as it does when whois.whois raises for a name without a record
get_whois_data(domain, registry) ==
    IF "time" \notin WhoisModuleNames THEN NoWhoisData
    ELSE IF domain \in DOMAIN registry THEN registry[domain]
    ELSE NoWhoisData

\* the names whois.whois is called with
whois_lookups(variants, resolving) ==
    {variants[i] : i \in {j \in DOMAIN variants :
                             /\ variants[j] \in resolving
                             /\ "time" \in WhoisModuleNames}}

\* WHOISCrawler._is_recently_registered with days = 90
is_recently_registered(whois_data) ==
    \/ whois_data.creation_date = "None"
    \/ whois_data.creation_date = "unparseable"
    \/ whois_data.age_days <= 90

\* WHOISCrawler.crawl over the variants the generator returned; `resolving`
\* are the names _domain_exists finds
whois_crawl(target_cse, variants, resolving, registry) ==
    LET hit(v) == /\ v \in resolving
                  /\ get_whois_data(v, registry) # NoWhoisData
                  /\ is_recently_registered(get_whois_data(v, registry))
        kept == SelectSeq(variants, hit)
    IN  [i \in DOMAIN kept |->
            Found(kept[i], HttpPrefix \o kept[i], target_cse)]

\* TunnelServicesCrawler.tunnel_patterns
tunnel_patterns ==
    <<<<".","*","\\",".","n","g","r","o","k","\\",".","i","o">>,
      <<".","*","\\",".","n","g","r","o","k","-","f","r","e","e","\\",".","a","p","p">>,
      <<".","*","\\",".","v","e","r","c","e","l","\\",".","a","p","p">>,
      <<".","*","\\",".","h","e","r","o","k","u","a","p","p","\\",".","c","o","m">>,
      <<".","*","\\",".","r","e","p","l","\\",".","c","o">>,
      <<".","*","\\",".","g","l","i","t","c","h","\\",".","m","e">>,
      <<".","*","\\",".","p","a","g","e","s","\\",".","d","e","v">>,
      <<".","*","\\",".","w","e","b","\\",".","a","p","p">>,
      <<".","*","\\",".","t","r","y","c","l","o","u","d","f","l","a","r","e","\\",".","c","o","m">>>>

\* lines 37-38: pattern.split(r'\.')[1:], backslashes removed, joined by '.'
DomainSuffix(pattern) ==
    LET base_domain == Tail(StrSplitOn(pattern, <<"\\", ".">>))
    IN  StrJoin([i \in DOMAIN base_domain |-> StrRemove(base_domain[i], "\\")],
                <<".">>)

\* lines 40-45
TestDomains(keyword, domain_suffix) ==
    << StrLower(keyword) \o <<"-","l","o","g","i","n",".">> \o domain_suffix,
       StrLower(keyword) \o <<"-","s","e","c","u","r","e",".">> \o domain_suffix,
       StrLower(keyword) \o <<"-","v","e","r","i","f","y",".">> \o domain_suffix,
       StrLower(keyword) \o <<"o","n","l","i","n","e",".">> \o domain_suffix >>

\* TunnelServicesCrawler.crawl; `active` are the names _domain_is_active
\* finds answering with a status below 500
tunnel_crawl(target_cse, active) ==
    LET perPattern(keyword, pattern) ==
            SelectSeq(TestDomains(keyword, DomainSuffix(pattern)),
                      LAMBDA d : d \in active)
        perKeyword(keyword) ==
            Flatten([p \in DOMAIN tunnel_patterns |->
                        perPattern(keyword, tunnel_patterns[p])])
        kept == Flatten([k \in DOMAIN target_cse.keywords |->
                            perKeyword(target_cse.keywords[k])])
    IN  [i \in DOMAIN kept |->
            Found(kept[i], HttpsPrefix \o kept[i], target_cse)]

\* ---- sample target profiles and what the outside world may answer
kw_ab == <<"a","b">>
m_ab_co == <<"m",".","a","b",".","c","o">>
ab_x_co == <<"a","b","-","x",".","c","o">>
xy_co == <<"x","y",".","c","o">>
abonline_web_app == <<"a","b","o","n","l","i","n","e",".","w","e","b",".","a","p","p">>
ab_login_ngrok_io == <<"a","b","-","l","o","g","i","n",".","n","g","r","o","k",".","i","o">>

Profiles ==
    {[name |-> "T1", primary_domain |-> ab_co, additional_domains |-> <<>>,
      keywords |-> <<kw_ab>>],
     [name |-> "T1", primary_domain |-> ab_co,
      additional_domains |-> <<abonline_web_app>>, keywords |-> <<kw_ab>>],
     [name |-> "T1", primary_domain |-> xy_co, additional_domains |-> <<ab_co>>,
      keywords |-> <<StrLower(kw_ab), <<"X","Y">>>>]}

\* result urls of a search, tokens of a paste
SampleUrls ==
    {<<"h","t","t","p",":","/","/","a","b",".","c","o","/","x">>,
     <<"h","t","t","p","s",":","/","/","m",".","a","b",".","c","o">>,
     <<"h","t","t","p",":","/","/","a","b","-","x",".","c","o","/","l">>,
     <<"A","B","-","X",".","c","o",":","8","0">>}
SampleTokens == SampleUrls \cup {<<"h","i">>}
\* names on a certificate, names that answer a probe
SampleCertDomains == {ab_co, m_ab_co, ab_x_co, xy_co}
SampleProbes == {ab_login_ngrok_io, abonline_web_app}
\* longest list of results, tokens or names the outside world returns
MaxResults == 2

NoCrawl ==
    [source |-> "", cse |-> CHOOSE p \in Profiles : p.additional_domains = <<>> /\ p.primary_domain = ab_co,
     input |-> <<>>, discovered |-> <<>>]

WebSearchCrawl(target_cse, results) ==
    /\ crawl_out' = [source |-> "web_search", cse |-> target_cse, input |-> results,
                     discovered |-> web_search_crawl(target_cse, results)]
    /\ UNCHANGED <<repoVars, saveVars, runVars, rlVars, ctVars, genVars, dorkVars>>

DorkingCrawl(target_cse, results) ==
    /\ crawl_out' = [source |-> "dorking", cse |-> target_cse, input |-> results,
                     discovered |-> dorking_crawl(target_cse, results)]
    /\ UNCHANGED <<repoVars, saveVars, runVars, rlVars, ctVars, genVars, dorkVars>>

WhoisCrawl(target_cse, variants, resolving, registry) ==
    /\ crawl_out' = [source |-> "whois", cse |-> target_cse,
                     input |-> <<variants, resolving, registry>>,
                     discovered |-> whois_crawl(target_cse, variants, resolving, registry),
                     lookups |-> whois_lookups(variants, resolving)]
    /\ UNCHANGED <<repoVars, saveVars, runVars, rlVars, ctVars, genVars, dorkVars>>

CertCrawl(target_cse, certs) ==
    /\ crawl_out' = [source |-> "cert_transparency", cse |-> target_cse, input |-> certs,
                     discovered |-> cert_crawl(target_cse, certs)]
    /\ UNCHANGED <<repoVars, saveVars, runVars, rlVars, ctVars, genVars, dorkVars>>

PasteCrawl(target_cse, pastes) ==
    /\ crawl_out' = [source |-> "paste_sites", cse |-> target_cse, input |-> pastes,
                     discovered |-> paste_crawl(target_cse, pastes)]
    /\ UNCHANGED <<repoVars, saveVars, runVars, rlVars, ctVars, genVars, dorkVars>>

SocialCrawl(target_cse) ==
    /\ crawl_out' = [source |-> "social_media", cse |-> target_cse, input |-> <<>>,
                     discovered |-> social_crawl(target_cse)]
    /\ UNCHANGED <<repoVars, saveVars, runVars, rlVars, ctVars, genVars, dorkVars>>

TunnelCrawl(target_cse, active) ==
    /\ crawl_out' = [source |-> "tunnel_services", cse |-> target_cse, input |-> active,
                     discovered |-> tunnel_crawl(target_cse, active)]
    /\ UNCHANGED <<repoVars, saveVars, runVars, rlVars, ctVars, genVars, dorkVars>>

\* names on a certificate and target profiles that differ from the
\* configured spelling in letter case only
AB_co == <<"A","B",".","c","o">>
CertNames == SampleCertDomains \cup {AB_co, <<"M",".","a","b",".","c","o">>}
CertProfiles ==
    Profiles \cup
    {[name |-> "T1", primary_domain |-> AB_co, additional_domains |-> <<>>,
      keywords |-> <<kw_ab>>]}

\* BaseCrawler.run lines 136-140 for the certificate source: crawl one
\* target, then save_domain for each candidate in turn
CertRunTarget(target_cse, certs) ==
    /\ domain_table = <<>>
    /\ LET discovered == cert_crawl(target_cse, certs)
           r == SaveAll(domain_table, domains_found["cert_transparency"],
                        "cert_transparency", discovered,
                        [i \in DOMAIN discovered |-> FALSE])
       IN  /\ crawl_out' = [source |-> "cert_transparency", cse |-> target_cse,
                            input |-> certs, discovered |-> discovered]
           /\ domain_table' = r.table
           /\ domains_found' =
                 [domains_found EXCEPT !["cert_transparency"] = r.found]
    /\ UNCHANGED <<crawler_logs, log_id>>
    /\ UNCHANGED <<saveVars, runVars, rlVars, ctVars, genVars, dorkVars>>

(***************************************************************************)
(* crawlers/cert_transparency.py: crawl (the consumer) and _monitor_ct_logs *)
(* (the subscriber thread) of one CertTransparencyCrawler instance          *)
(***************************************************************************)
\* queue.Queue(maxsize=10000), scaled down
QueueCap == 2
\* cert_queue.get(timeout=10), the 30 s test of line 75, monitoring_duration
\* = 300 and join(timeout=5), scaled down
PullTimeout == 2
InactivityCeiling == 4
MonitoringDuration == 8
JoinTimeout == 1
\* max_retries = 3 and the 5 s unit of the retry sleep, scaled down
MaxRetries == 3
BackoffUnit == 1
\* crawl calls on the instance, events the feed sends, times the feed client
\* raises, times it returns
MaxCrawls == 2
MaxEvents == 3
MaxFeedBreaks == 3
MaxFeedReturns == 1

SubThreads == 1..MaxCrawls

\* the target every crawl of the instance is given
CtTarget ==
    [name |-> "T1", primary_domain |-> ab_co, additional_domains |-> <<>>,
     keywords |-> <<kw_ab>>]

\* message['data']['leaf_cert']['all_domains'] of the n-th event of the feed
CertOf(n) == IF n % 2 = 1 THEN <<ab_x_co>> ELSE <<m_ab_co>>

\* a callback that puts without looking at the queue
NeverFull(q) == FALSE

\* self.cert_queue.full()
QueueFull(q) == Len(q) >= QueueCap

\* a consumer loop without the duration limit
NoDurationLimit(elapsed) == TRUE

\* line 42: (datetime.now() - start_time).seconds < self.monitoring_duration
WithinDuration(elapsed) == elapsed < MonitoringDuration

\* line 75: (datetime.now() - start_time).seconds > 30
PastInactivityCeiling(elapsed) == elapsed > InactivityCeiling

\* a retry sleep that does not grow
ConstantBackoff(n) == BackoffUnit

\* line 130: sleep_time = 5 * self.retry_count
Backoff(n) == BackoffUnit * n

\* a retry limit that is never reached
RetriesNeverExhausted(n) == FALSE

\* lines 118 and 128: retry_count has reached max_retries
RetriesExhausted(n) == n >= MaxRetries

NoCrawlRun ==
    [n |-> 0, start |-> 0, queued_at_start |-> 0, events_in |-> 0,
     received |-> 0, consec_empty |-> 0, exit_empties |-> -1,
     early_exit |-> FALSE, pulled_after_stop |-> FALSE, loop_end |-> -1,
     ret_at |-> -1, alive_at_return |-> FALSE, result |-> <<>>,
     stop_at_start |-> FALSE, retries_at_start |-> 0, pulled_from |-> {}]
NoMonitor ==
    [invocations |-> 0, failed_in_row |-> 0, waits |-> <<>>,
     exhausted |-> FALSE]

SubAlive(k) == sub_pc[k] \notin {"unborn", "dead"}

\* crawl, lines 26-41: start the subscriber thread, note start_time
StartCrawl ==
    /\ c_pc = "idle"
    /\ crawl_h.n < MaxCrawls
    /\ LET k == crawl_h.n + 1
       IN  /\ sub_pc' = [sub_pc EXCEPT ![k] = "while"]
           /\ crawl_h' = [NoCrawlRun EXCEPT !.n = k, !.start = ct_now,
                                       !.queued_at_start = Len(cert_queue),
                                       !.stop_at_start = stop_monitoring,
                                       !.retries_at_start = retry_count]
    /\ c_start' = ct_now
    /\ c_timeout' = FALSE
    /\ c_discovered' = <<>>
    /\ c_pc' = "loop"
    /\ UNCHANGED <<cert_queue, stop_monitoring, retry_count, ct_now, c_wait_at,
                   sub_wake, cb_event, feed, queue_h, sub_h>>
    /\ UNCHANGED <<repoVars, saveVars, runVars, rlVars, crawlVars, genVars, dorkVars>>

\* the while test of line 42; when it fails, lines 84-85: set the flag and
\* begin the bounded join
ConsumerLoop ==
    /\ c_pc = "loop"
    /\ IF WithinDuration(ct_now - c_start) /\ ~c_timeout
       THEN /\ c_pc' = "pulling"
            /\ crawl_h' = [crawl_h EXCEPT !.pulled_after_stop =
                         @ \/ sub_h[crawl_h.n].exhausted]
            /\ UNCHANGED stop_monitoring
       ELSE /\ c_pc' = "joining"
            /\ stop_monitoring' = TRUE
            /\ crawl_h' = [crawl_h EXCEPT !.early_exit = c_timeout,
                                !.exit_empties = crawl_h.consec_empty,
                                !.loop_end = ct_now]
    /\ c_wait_at' = ct_now
    /\ UNCHANGED <<cert_queue, retry_count, ct_now, c_timeout, c_start,
                   c_discovered, sub_pc, sub_wake, cb_event, feed, queue_h, sub_h>>
    /\ UNCHANGED <<repoVars, saveVars, runVars, rlVars, crawlVars, genVars, dorkVars>>

\* lines 45-70: get returns the oldest event and its names are filtered
PullItem ==
    /\ c_pc = "pulling"
    /\ cert_queue # <<>>
    /\ LET n == Head(cert_queue)
       IN  /\ c_discovered' = c_discovered \o cert_crawl(CtTarget, <<CertOf(n)>>)
           /\ queue_h' = [queue_h EXCEPT !.pulled = Append(@, n)]
    /\ cert_queue' = Tail(cert_queue)
    /\ crawl_h' = [crawl_h EXCEPT
                     !.received = @ + 1, !.consec_empty = 0,
                     !.pulled_from = @ \cup
                        {queue_h.pusher[i] : i \in {j \in DOMAIN queue_h.pushed :
                                    queue_h.pushed[j] = Head(cert_queue)}}]
    /\ c_pc' = "loop"
    /\ UNCHANGED <<stop_monitoring, retry_count, ct_now, c_timeout, c_start,
                   c_wait_at, sub_pc, sub_wake, cb_event, feed, sub_h>>
    /\ UNCHANGED <<repoVars, saveVars, runVars, rlVars, crawlVars, genVars, dorkVars>>

\* lines 72-79: get raises queue.Empty after its timeout
PullEmpty ==
    /\ c_pc = "pulling"
    /\ cert_queue = <<>>
    /\ ct_now >= c_wait_at + PullTimeout
    /\ c_timeout' = (c_timeout \/ PastInactivityCeiling(ct_now - c_start))
    /\ crawl_h' = [crawl_h EXCEPT !.consec_empty = @ + 1]
    /\ c_pc' = "loop"
    /\ UNCHANGED <<cert_queue, stop_monitoring, retry_count, ct_now, c_start,
                   c_wait_at, c_discovered, sub_pc, sub_wake, cb_event, feed,
                   queue_h, sub_h>>
    /\ UNCHANGED <<repoVars, saveVars, runVars, rlVars, crawlVars, genVars, dorkVars>>

\* lines 85-89: join returns when the thread has ended or after its timeout,
\* and crawl returns `discovered`
JoinReturn ==
    /\ c_pc = "joining"
    /\ ~SubAlive(crawl_h.n) \/ ct_now >= c_wait_at + JoinTimeout
    /\ crawl_h' = [crawl_h EXCEPT !.ret_at = ct_now,
                        !.alive_at_return = SubAlive(crawl_h.n),
                        !.result = c_discovered]
    /\ c_pc' = "idle"
    /\ UNCHANGED <<cert_queue, stop_monitoring, retry_count, ct_now, c_timeout,
                   c_start, c_wait_at, c_discovered, sub_pc, sub_wake, cb_event,
                   feed, queue_h, sub_h>>
    /\ UNCHANGED <<repoVars, saveVars, runVars, rlVars, crawlVars, genVars, dorkVars>>

\* _monitor_ct_logs, the while test of line 118 and the call of line 121
SubLoop(k) ==
    /\ sub_pc[k] = "while"
    /\ IF ~RetriesExhausted(retry_count) /\ ~stop_monitoring
       THEN /\ sub_pc' = [sub_pc EXCEPT ![k] = "listen"]
            /\ sub_h' = [sub_h EXCEPT ![k].invocations = @ + 1]
       ELSE /\ sub_pc' = [sub_pc EXCEPT ![k] = "dead"]
            /\ UNCHANGED sub_h
    /\ UNCHANGED <<cert_queue, stop_monitoring, retry_count, ct_now, c_pc,
                   c_timeout, c_start, c_wait_at, c_discovered, sub_wake,
                   cb_event, feed, queue_h, crawl_h>>
    /\ UNCHANGED <<repoVars, saveVars, runVars, rlVars, crawlVars, genVars, dorkVars>>

\* callback, lines 93-112, up to the put: a certificate_update arrives while
\* the feed client is listening
FeedMessage(k) ==
    /\ sub_pc[k] = "listen"
    /\ feed.events < MaxEvents
    /\ feed' = [feed EXCEPT !.events = @ + 1]
    /\ IF stop_monitoring
       THEN UNCHANGED <<sub_pc, cb_event, retry_count, queue_h, sub_h>>
       ELSE IF QueueFull(cert_queue)
       THEN /\ retry_count' = 0
            /\ queue_h' = [queue_h EXCEPT !.dropped = @ + 1]
            /\ sub_h' = [sub_h EXCEPT ![k].failed_in_row = 0]
            /\ UNCHANGED <<sub_pc, cb_event>>
       ELSE /\ sub_pc' = [sub_pc EXCEPT ![k] = "cb_put"]
            /\ cb_event' = [cb_event EXCEPT ![k] = feed.events + 1]
            /\ UNCHANGED <<retry_count, queue_h, sub_h>>
    /\ UNCHANGED <<cert_queue, stop_monitoring, ct_now, c_pc, c_timeout,
                   c_start, c_wait_at, c_discovered, sub_wake, crawl_h>>
    /\ UNCHANGED <<repoVars, saveVars, runVars, rlVars, crawlVars, genVars, dorkVars>>

\* callback, lines 109-112: put (which waits while the queue is full) and
\* the reset of retry_count
CallbackPut(k) ==
    /\ sub_pc[k] = "cb_put"
    /\ Len(cert_queue) < QueueCap
    /\ cert_queue' = Append(cert_queue, cb_event[k])
    /\ queue_h' = [queue_h EXCEPT !.pushed = Append(@, cb_event[k]),
                                  !.pusher = Append(@, k)]
    /\ retry_count' = 0
    /\ sub_h' = [sub_h EXCEPT ![k].failed_in_row = 0]
    /\ crawl_h' = IF c_pc # "idle" THEN [crawl_h EXCEPT !.events_in = @ + 1] ELSE crawl_h
    /\ sub_pc' = [sub_pc EXCEPT ![k] = "listen"]
    /\ UNCHANGED <<stop_monitoring, ct_now, c_pc, c_timeout, c_start, c_wait_at,
                   c_discovered, sub_wake, cb_event, feed>>
    /\ UNCHANGED <<repoVars, saveVars, runVars, rlVars, crawlVars, genVars, dorkVars>>

\* lines 127-138: listen_for_events raises; count it, then sleep or give up
FeedRaises(k) ==
    /\ sub_pc[k] = "listen"
    /\ feed.breaks < MaxFeedBreaks
    /\ feed' = [feed EXCEPT !.breaks = @ + 1]
    /\ retry_count' = retry_count + 1
    /\ IF ~RetriesExhausted(retry_count + 1)
       THEN /\ sub_pc' = [sub_pc EXCEPT ![k] = "backoff"]
            /\ sub_wake' = [sub_wake EXCEPT ![k] = ct_now + Backoff(retry_count + 1)]
            /\ sub_h' = [sub_h EXCEPT ![k].failed_in_row = @ + 1,
                                ![k].waits = Append(@,
                                    [failures |-> sub_h[k].failed_in_row + 1,
                                     wait |-> Backoff(retry_count + 1)])]
            /\ UNCHANGED stop_monitoring
       ELSE /\ sub_pc' = [sub_pc EXCEPT ![k] = "dead"]
            /\ stop_monitoring' = TRUE
            /\ sub_h' = [sub_h EXCEPT ![k].failed_in_row = @ + 1,
                                ![k].exhausted = TRUE]
            /\ UNCHANGED sub_wake
    /\ UNCHANGED <<cert_queue, ct_now, c_pc, c_timeout, c_start, c_wait_at,
                   c_discovered, cb_event, queue_h, crawl_h>>
    /\ UNCHANGED <<repoVars, saveVars, runVars, rlVars, crawlVars, genVars, dorkVars>>

\* listen_for_events returns without raising: back to the while test
FeedReturns(k) ==
    /\ sub_pc[k] = "listen"
    /\ feed.returns < MaxFeedReturns
    /\ feed' = [feed EXCEPT !.returns = @ + 1]
    /\ sub_pc' = [sub_pc EXCEPT ![k] = "while"]
    /\ UNCHANGED <<cert_queue, stop_monitoring, retry_count, ct_now, c_pc,
                   c_timeout, c_start, c_wait_at, c_discovered, sub_wake,
                   cb_event, queue_h, crawl_h, sub_h>>
    /\ UNCHANGED <<repoVars, saveVars, runVars, rlVars, crawlVars, genVars, dorkVars>>

\* line 132: time.sleep(sleep_time) ends
SubWake(k) ==
    /\ sub_pc[k] = "backoff"
    /\ ct_now >= sub_wake[k]
    /\ sub_pc' = [sub_pc EXCEPT ![k] = "while"]
    /\ UNCHANGED <<cert_queue, stop_monitoring, retry_count, ct_now, c_pc,
                   c_timeout, c_start, c_wait_at, c_discovered, sub_wake,
                   cb_event, feed, queue_h, crawl_h, sub_h>>
    /\ UNCHANGED <<repoVars, saveVars, runVars, rlVars, crawlVars, genVars, dorkVars>>

\* a step of the program that takes no time is due
StepDue ==
    \/ c_pc = "loop"
    \/ c_pc = "pulling" /\ (cert_queue # <<>> \/ ct_now >= c_wait_at + PullTimeout)
    \/ c_pc = "joining" /\ (~SubAlive(crawl_h.n) \/ ct_now >= c_wait_at + JoinTimeout)
    \/ \E k \in SubThreads :
          \/ sub_pc[k] = "while"
          \/ sub_pc[k] = "cb_put" /\ Len(cert_queue) < QueueCap
          \/ sub_pc[k] = "backoff" /\ ct_now >= sub_wake[k]

\* the clock advances while the consumer waits in get or join, or a
\* subscriber sleeps, and no step of the program is due
CtTick ==
    /\ \/ c_pc \in {"pulling", "joining"}
       \/ \E k \in SubThreads : sub_pc[k] = "backoff"
    /\ ~StepDue
    /\ ct_now' = ct_now + 1
    /\ UNCHANGED <<cert_queue, stop_monitoring, retry_count, c_pc, c_timeout,
                   c_start, c_wait_at, c_discovered, sub_pc, sub_wake, cb_event,
                   feed, queue_h, crawl_h, sub_h>>
    /\ UNCHANGED <<repoVars, saveVars, runVars, rlVars, crawlVars, genVars, dorkVars>>

(***************************************************************************)
(* generators/typosquat.py: TyposquatGenerator                              *)
(* A character outside ASCII is written as one character named by its code  *)
(* point ("U+043E").                                                        *)
(***************************************************************************)
COMMON_TLDS ==
    <<<<"c", "o", "m">>, <<"n", "e", "t">>, <<"o", "r", "g">>,
      <<"i", "n", "f", "o">>, <<"c", "o">>, <<"i", "n">>,
      <<"c", "o", ".", "i", "n">>, <<"x", "y", "z">>, <<"t", "o", "p">>,
      <<"o", "n", "l", "i", "n", "e">>, <<"s", "i", "t", "e">>,
      <<"c", "l", "u", "b">>, <<"l", "i", "v", "e">>,
      <<"t", "e", "c", "h">>, <<"s", "t", "o", "r", "e">>,
      <<"w", "e", "b", "s", "i", "t", "e">>, <<"s", "p", "a", "c", "e">>,
      <<"p", "r", "o">>>>

CHAR_SUBSTITUTIONS ==
    [a |-> <<"@", "4">>, e |-> <<"3">>, i |-> <<"1", "l", "!">>,
     l |-> <<"1", "i">>, o |-> <<"0">>, s |-> <<"5", "$">>, t |-> <<"7">>,
     g |-> <<"9">>, b |-> <<"8">>]

KEYBOARD_ADJACENCY ==
    [a |-> <<"s", "q", "w", "z">>, b |-> <<"v", "g", "h", "n">>,
     c |-> <<"x", "d", "f", "v">>, d |-> <<"s", "e", "r", "f", "c", "x">>,
     e |-> <<"w", "s", "d", "r">>, f |-> <<"d", "r", "t", "g", "v", "c">>,
     g |-> <<"f", "t", "y", "h", "h", "b", "v">>,
     h |-> <<"g", "y", "u", "j", "n", "b">>, i |-> <<"u", "j", "k", "o">>,
     j |-> <<"h", "u", "i", "k", "m", "n">>,
     k |-> <<"j", "i", "o", "l", "m">>, l |-> <<"k", "o", "p">>,
     m |-> <<"n", "j", "k">>, n |-> <<"b", "h", "j", "m">>,
     o |-> <<"i", "k", "l", "p">>, p |-> <<"o", "l">>, q |-> <<"w", "a">>,
     r |-> <<"e", "d", "f", " ", "t">>,
     s |-> <<"a", "w", "e", "d", "x", "z">>, t |-> <<"r", "f", "g", "y">>,
     u |-> <<"y", "h", "j", "i">>, v |-> <<"c", "f", "g", "b">>,
     w |-> <<"q", "a", "s", "e">>, x |-> <<"z", "s", "d", "c">>,
     y |-> <<"t", "g", "h", "u">>, z |-> <<"a", "s", "x">>]

\* the suffixes tldextract knows, as far as the sample domains need them
KnownSuffixes == {<<"c", "o", "m">>, <<"c", "o">>, <<"i", "o">>, <<"c", "o", ".", "i", "n">>}

\* extract_domain_parts: tldextract.extract takes the longest known suffix,
\* the label before it as the domain and the rest as the subdomain; with no
\* known suffix the last label is the domain and the suffix is empty
extract_domain_parts(domain) ==
    LET labels == StrSplitOn(domain, <<".">>)
        n == Len(labels)
        tail(k) == StrJoin(SubSeq(labels, n - k + 1, n), <<".">>)
        k == IF n >= 2 /\ tail(2) \in KnownSuffixes THEN 2
             ELSE IF tail(1) \in KnownSuffixes THEN 1 ELSE 0
    IN  IF n = k
        THEN [subdomain |-> <<>>, domain |-> <<>>, suffix |-> domain]
        ELSE [subdomain |-> StrJoin(SubSeq(labels, 1, n - k - 1), <<".">>),
              domain |-> labels[n - k],
              suffix |-> IF k = 0 THEN <<>> ELSE tail(k)]

\* s[i:j] for 0 <= i, j <= len(s)
PySlice(s, i, j) == SubSeq(s, i + 1, j)

\* f"{variant}.{tld}"
Dotted(variant, tld) == variant \o <<".">> \o tld

\* the loop shared by the three replacing operators: every character that
\* is a key of the table, replaced by each of its entries in turn
ReplaceFrom(replacements, domain, tld) ==
    UNION {{Dotted(PySlice(domain, 0, i)
                       \o <<replacements[LowerChar(domain[i + 1])][r]>>
                       \o PySlice(domain, i + 1, Len(domain)), tld) :
               r \in DOMAIN replacements[LowerChar(domain[i + 1])]} :
           i \in {j \in 0..(Len(domain) - 1) :
                     LowerChar(domain[j + 1]) \in DOMAIN replacements}}

character_omission(domain, tld) ==
    {Dotted(PySlice(domain, 0, i) \o PySlice(domain, i + 1, Len(domain)), tld) :
        i \in {j \in 0..(Len(domain) - 1) : Len(domain) - 1 >= 3}}

character_repetition(domain, tld) ==
    {Dotted(PySlice(domain, 0, i) \o <<domain[i + 1]>>
                \o PySlice(domain, i, Len(domain)), tld) :
        i \in 0..(Len(domain) - 1)}

character_substitution(domain, tld) ==
    ReplaceFrom(CHAR_SUBSTITUTIONS, domain, tld)

character_insertion(domain, tld) ==
    {Dotted(PySlice(domain, 0, ic[1]) \o <<ic[2]>>
                \o PySlice(domain, ic[1], Len(domain)), tld) :
        ic \in {jc \in (0..Len(domain)) \X (Lowers \cup Digits) :
                   Len(domain) + 1 <= 63}}

character_swap(domain, tld) ==
    {Dotted([k \in DOMAIN domain |->
                IF k = i + 1 THEN domain[i + 2]
                ELSE IF k = i + 2 THEN domain[i + 1] ELSE domain[k]], tld) :
        i \in 0..(Len(domain) - 2)}

keyboard_typos(domain, tld) ==
    ReplaceFrom(KEYBOARD_ADJACENCY, domain, tld)

homograph_variants(domain, tld) ==
    LET homographs ==
            [o |-> <<"0", "U+03BF", "U+043E">>,
             a |-> <<"U+0430", "U+03B1">>, e |-> <<"U+0435", "U+03B5">>,
             i |-> <<"U+0456", "U+03B9">>, p |-> <<"U+0440", "U+03C1">>,
             c |-> <<"U+0441", "U+03F2">>, y |-> <<"U+0443", "U+03B3">>]
    IN  ReplaceFrom(homographs, domain, tld)

tld_variations(domain) ==
    {Dotted(domain, COMMON_TLDS[t]) : t \in DOMAIN COMMON_TLDS}

hyphenation(domain, tld) ==
    {Dotted(PySlice(domain, 0, i) \o <<"-">> \o PySlice(domain, i, Len(domain)),
            tld) :
        i \in 1..(Len(domain) - 1)}

prefix_suffix(domain, tld) ==
    LET prefixes ==
            <<<<>>, <<"w", "w", "w">>, <<"s", "e", "c", "u", "r", "e">>,
              <<"l", "o", "g", "i", "n">>,
              <<"a", "c", "c", "o", "u", "n", "t">>,
              <<"v", "e", "r", "i", "f", "y">>,
              <<"u", "p", "d", "a", "t", "e">>>>
        suffixes ==
            <<<<>>, <<"l", "o", "g", "i", "n">>,
              <<"s", "e", "c", "u", "r", "e">>,
              <<"o", "n", "l", "i", "n", "e">>, <<"b", "a", "n", "k">>,
              <<"a", "u", "t", "h">>, <<"v", "e", "r", "i", "f", "y">>>>
    IN  {Dotted(StrJoin(SelectSeq(<<prefixes[ps[1]], domain, suffixes[ps[2]]>>,
                                  LAMBDA part : part # <<>>), <<"-">>), tld) :
            ps \in {qs \in (DOMAIN prefixes) \X (DOMAIN suffixes) :
                       prefixes[qs[1]] # <<>> \/ suffixes[qs[2]] # <<>>}}

\* generate_all_variants, lines 51-84: the union of the ten operators
AllVariants(domain) ==
    LET parts == extract_domain_parts(domain)
        base_domain == parts.domain
        original_tld == parts.suffix
    IN  character_omission(base_domain, original_tld)
            \cup character_repetition(base_domain, original_tld)
            \cup character_substitution(base_domain, original_tld)
            \cup character_insertion(base_domain, original_tld)
            \cup character_swap(base_domain, original_tld)
            \cup keyboard_typos(base_domain, original_tld)
            \cup homograph_variants(base_domain, original_tld)
            \cup tld_variations(base_domain)
            \cup hyphenation(base_domain, original_tld)
            \cup prefix_suffix(base_domain, original_tld)

\* the subsets of S with n elements, built from the smaller side
RECURSIVE Pick(_, _)
Pick(S, n) ==
    IF n = 0 THEN {{}}
    ELSE UNION {{T \cup {x} : x \in S \ T} : T \in Pick(S, n - 1)}
SubsetsOfSize(S, n) ==
    IF 2 * n <= Cardinality(S) THEN Pick(S, n)
    ELSE {S \ T : T \in Pick(S, Cardinality(S) - n)}

\* a generator that returns the union whatever the cap
NoLimit(variants, max_variants) == {variants}

\* lines 86-88, the results the truncation can give: the first max_variants
\* elements in the iteration order of the set, which the hash seed of the
\* process decides: any max_variants of them
LimitVariants(variants, max_variants) ==
    IF Cardinality(variants) > max_variants
    THEN SubsetsOfSize(variants, max_variants)
    ELSE {variants}

\* seed domains: a common TLD, a doubled letter, a subdomain, none of these
acme_com == <<"a", "c", "m", "e", ".", "c", "o", "m">>
aab_io == <<"a", "a", "b", ".", "i", "o">>
abc_io == <<"a", "b", "c", ".", "i", "o">>
Seeds == {acme_com, aab_io, m_ab_co, abc_io}

\* the union for each seed
UnionOf == [domain \in Seeds |-> AllVariants(domain)]

\* the sets generate_all_variants(domain, max_variants) can return
generate_all_variants(domain, max_variants) ==
    LimitVariants(UnionOf[domain], max_variants)

\* caps: the smallest ones, one below the size of the union, that size, and
\* the default max_variants=1000
MaxCap == 1
DefaultCap == 1000
CapsFor(domain) ==
    (0..MaxCap) \cup {Cardinality(UnionOf[domain]) - 1,
                      Cardinality(UnionOf[domain]), DefaultCap}

NoGen == [domain |-> <<>>, max_variants |-> -1, variants |-> {}, proc |-> 0]

\* one call of generate_all_variants
Generate ==
    /\ gen_in # NoGen
    /\ gen_out = NoGen
    /\ \E v \in generate_all_variants(gen_in.domain, gen_in.max_variants) :
          gen_out' = [gen_in EXCEPT !.variants = v]
    /\ UNCHANGED <<proc, gen_in, prev_out>>
    /\ UNCHANGED <<repoVars, saveVars, runVars, rlVars, crawlVars, ctVars,
                   dorkVars>>

\* the program ends and is started again: a new hash seed
RestartProcess ==
    /\ gen_out # NoGen
    /\ prev_out = NoGen
    /\ proc = gen_out.proc
    /\ proc' = proc + 1
    /\ gen_in' = [gen_in EXCEPT !.proc = proc + 1]
    /\ UNCHANGED <<gen_out, prev_out>>
    /\ UNCHANGED <<repoVars, saveVars, runVars, rlVars, crawlVars, ctVars,
                   dorkVars>>

\* a second call with the same arguments: in the same process the set is
\* built and iterated as before, in a new one the order is a new one
GenerateAgain ==
    /\ gen_out # NoGen
    /\ prev_out = NoGen
    /\ prev_out' = gen_out
    /\ \E v \in generate_all_variants(gen_in.domain, gen_in.max_variants) :
          /\ proc = gen_out.proc => v = gen_out.variants
          /\ gen_out' = [gen_in EXCEPT !.variants = v]
    /\ UNCHANGED <<proc, gen_in>>
    /\ UNCHANGED <<repoVars, saveVars, runVars, rlVars, crawlVars, ctVars,
                   dorkVars>>

(***************************************************************************)
(* generators/idn_generator.py: IDNGenerator                                *)
(***************************************************************************)
HOMOGRAPHS ==
    [a |-> <<"U+0430", "U+0251", "U+03B1", "U+FF41">>,
     b |-> <<"U+042C", "U+15AF", "U+FF42">>,
     c |-> <<"U+0441", "U+03F2", "U+217D", "U+FF43">>,
     d |-> <<"U+0501", "U+217E", "U+FF44">>,
     e |-> <<"U+0435", "U+0117", "U+03B5", "U+FF45">>,
     f |-> <<"f", "U+FF46">>, g |-> <<"U+0261", "U+0262", "U+FF47">>,
     h |-> <<"U+04BB", "U+04BA", "U+FF48">>,
     i |-> <<"U+0456", "U+03B9", "U+2170", "U+FF49">>,
     j |-> <<"U+0458", "U+2149", "U+FF4A">>,
     k |-> <<"U+03BA", "U+043A", "U+FF4B">>,
     l |-> <<"U+217C", "U+2160", "U+FF4C">>,
     m |-> <<"m", "U+217F", "U+FF4D">>, n |-> <<"n", "U+0578", "U+FF4E">>,
     o |-> <<"U+043E", "U+03BF", "U+03C3", "U+09E6", "U+FF4F">>,
     p |-> <<"U+0440", "U+03C1", "U+2CA3", "U+FF50">>,
     q |-> <<"q", "U+051B", "U+FF51">>, r |-> <<"r", "U+0433", "U+FF52">>,
     s |-> <<"U+0455", "U+0282", "U+FF53">>,
     t |-> <<"t", "U+0442", "U+FF54">>,
     u |-> <<"u", "U+03C5", "U+057D", "U+FF55">>,
     v |-> <<"v", "U+03BD", "U+0475", "U+FF56">>,
     w |-> <<"w", "U+051D", "U+FF57">>,
     x |-> <<"x", "U+0445", "U+2179", "U+FF58">>,
     y |-> <<"y", "U+0443", "U+04AF", "U+FF59">>,
     z |-> <<"z", "U+1D22", "U+FF5A">>]

\* the variants.add calls of generate_idn_variants in the order the two
\* loops make them, were there no cap: the variant, the position of the
\* (first) replaced character and the loop
IdnAdds(domain) ==
    LET parts == StrSplitOn(domain, <<".">>)
        domain_name == parts[1]
        tld == StrJoin(Tail(parts), <<".">>)
        n == Len(domain_name)
        key(i) == LowerChar(domain_name[i + 1])
        single(i) ==
            IF key(i) \in DOMAIN HOMOGRAPHS
            THEN [h \in DOMAIN HOMOGRAPHS[key(i)] |->
                    [variant |-> Dotted(PySlice(domain_name, 0, i)
                                            \o <<HOMOGRAPHS[key(i)][h]>>
                                            \o PySlice(domain_name, i + 1, n), tld),
                     pos |-> i, loop |-> 1]]
            ELSE <<>>
        first2(c) == SubSeq(HOMOGRAPHS[c], 1, 2)
        pair(i, j) ==
            IF key(i) \in DOMAIN HOMOGRAPHS /\ key(j) \in DOMAIN HOMOGRAPHS
            THEN Flatten([h1 \in 1..2 |-> [h2 \in 1..2 |->
                    [variant |-> Dotted(PySlice(domain_name, 0, i)
                                            \o <<first2(key(i))[h1]>>
                                            \o PySlice(domain_name, i + 1, j)
                                            \o <<first2(key(j))[h2]>>
                                            \o PySlice(domain_name, j + 1, n), tld),
                     pos |-> i, loop |-> 2]]])
            ELSE <<>>
        upper(i) == IF i + 3 < n THEN i + 3 ELSE n
        pairsAt(i) ==
            Flatten([d \in 1..(IF upper(i) - i - 1 > 0 THEN upper(i) - i - 1 ELSE 0)
                        |-> pair(i, i + d)])
    IN  Flatten([k \in 1..n |-> single(k - 1)])
            \o Flatten([k \in 1..n |-> pairsAt(k - 1)])

\* `if len(variants) >= max_variants: return variants`, after an add
AtCap(size, max_variants) == size >= max_variants

\* generate_idn_variants: the adds made until the early return, and the set
generate_idn_variants(domain, max_variants) ==
    IF Len(StrSplitOn(domain, <<".">>)) < 2
    THEN [variants |-> {}, adds |-> <<>>]
    ELSE LET adds == IdnAdds(domain)
             setOf(k) == {adds[a].variant : a \in 1..k}
             stops == {k \in DOMAIN adds :
                          AtCap(Cardinality(setOf(k)), max_variants)}
             last == IF stops = {} THEN Len(adds)
                     ELSE CHOOSE k \in stops : \A m \in stops : k <= m
         IN  [variants |-> setOf(last), adds |-> SubSeq(adds, 1, last)]

\* domains the IDN generator is called with, and the largest cap
IdnSeeds ==
    {ab_co, AB_co, m_ab_co, <<"c","o">>, <<"a","1",".","c","o">>,
     <<"f","m",".","i","o">>, <<"a","b","c",".","c","o",".","i","n">>}
MaxIdnCap == 12

\* one call of generate_idn_variants
GenerateIdn ==
    /\ gen_in # NoGen
    /\ gen_out = NoGen
    /\ LET r == generate_idn_variants(gen_in.domain, gen_in.max_variants)
       IN  gen_out' = [domain |-> gen_in.domain,
                       max_variants |-> gen_in.max_variants,
                       variants |-> r.variants, adds |-> r.adds]
    /\ UNCHANGED <<proc, gen_in, prev_out>>
    /\ UNCHANGED <<repoVars, saveVars, runVars, rlVars, crawlVars, ctVars,
                   dorkVars>>

(***************************************************************************)
(* crawlers/dorking_crawler.py: the engines of DorkingCrawler.crawl         *)
(***************************************************************************)
\* DorkingCrawler.search_engines
SearchEngines == {"bing", "duckduckgo", "google"}

\* self.google_query_limit
google_query_limit == 3

\* what one _search_<engine> call hands back: a non-empty list, or the empty
\* list (CAPTCHA page, timeout, any exception, or no suspicious result)
SearchSignals == {"results", "empty"}

\* most dork queries of one crawl (the code builds up to 30), and most
\* crawl calls on the instance (one per target of the run)
MaxQueries == 5
MaxDorkCrawls == 2

NoDorkHistory ==
    [signalled |-> {}, signalled_before |-> {}, queried |-> {},
     google_queries |-> 0]

\* DorkingCrawler.__init__
DorkIdle ==
    /\ google_enabled = TRUE
    /\ google_used = 0
    /\ dork_pc = "idle"
    /\ dork_queries = 0
    /\ dork_crawls = 0
    /\ dork_h = NoDorkHistory

\* crawl up to the query loop: n dork queries generated, google_used = 0,
\* browser launched
StartDorkCrawl(n) ==
    /\ dork_pc = "idle"
    /\ dork_crawls < MaxDorkCrawls
    /\ dork_crawls' = dork_crawls + 1
    /\ dork_queries' = n
    /\ google_used' = 0
    /\ dork_pc' = "loop"
    /\ dork_h' = [dork_h EXCEPT !.queried = {}, !.google_queries = 0,
                                !.signalled_before = dork_h.signalled]
    /\ UNCHANGED google_enabled
    /\ UNCHANGED <<repoVars, saveVars, runVars, rlVars, crawlVars, ctVars, genVars>>

\* `if self.google_enabled and google_used < self.google_query_limit`
AsksGoogle == google_enabled /\ google_used < google_query_limit

\* one pass of `for query in dork_queries`: Bing, DuckDuckGo, then Google if
\* enabled and under its limit; signal is what each engine would hand back
DorkQuery(signal) ==
    /\ dork_pc = "loop"
    /\ dork_queries > 0
    /\ LET queried == {"bing", "duckduckgo"}
                        \cup (IF AsksGoogle THEN {"google"} ELSE {})
       IN  /\ google_enabled' =
                 IF AsksGoogle /\ signal["google"] = "empty" THEN FALSE
                 ELSE google_enabled
           /\ google_used' =
                 IF AsksGoogle /\ signal["google"] # "empty" THEN google_used + 1
                 ELSE google_used
           /\ dork_h' =
                 [signalled_before |-> dork_h.signalled,
                  signalled |-> dork_h.signalled
                                  \cup {e \in queried : signal[e] = "empty"},
                  queried |-> queried,
                  google_queries |->
                      dork_h.google_queries + (IF AsksGoogle THEN 1 ELSE 0)]
    /\ dork_queries' = dork_queries - 1
    /\ UNCHANGED <<dork_pc, dork_crawls>>
    /\ UNCHANGED <<repoVars, saveVars, runVars, rlVars, crawlVars, ctVars, genVars>>

\* the loop is over: browser.close() and `return discovered`
DorkReturn ==
    /\ dork_pc = "loop"
    /\ dork_queries = 0
    /\ dork_pc' = "idle"
    /\ UNCHANGED <<google_enabled, google_used, dork_queries, dork_crawls, dork_h>>
    /\ UNCHANGED <<repoVars, saveVars, runVars, rlVars, crawlVars, ctVars, genVars>>

(***************************************************************************)
(* utils/rate_limiter.py                                                   *)
(***************************************************************************)
\* RateLimiter(calls, period), scaled down from calls=10, period=60
Calls == 2
Period == 3
\* threads sharing the limiter, and the last clock value explored
NumThreads == 2
MaxTime == 5
Threads == 1..NumThreads

\* a limiter whose critical section is not guarded
LockIgnored(l) == TRUE

\* `with self.lock:` can be entered when no thread holds the lock
LockFree(l) == l = 0

\* line 20: [t for t in self.timestamps if current_time - t < self.period]
InWindow(ts, current_time) ==
    SelectSeq(ts, LAMBDA t : current_time - t < Period)

\* a sleep measured from the newest call instead of the oldest
SleepFromNewest(ts, current_time) == Period - (current_time - ts[Len(ts)])

\* lines 24-25: oldest_call = self.timestamps[0]; period - (now - oldest)
SleepTime(ts, current_time) == Period - (current_time - ts[1])

NoEntry ==
    [t |-> -1, seen |-> <<>>, slept |-> 0, rec |-> -1, behind |-> FALSE]

\* a thread reaches `with self.rate_limiter:` and asks for the lock
Request(th) ==
    /\ tpc[th] = "out"
    /\ tpc' = [tpc EXCEPT ![th] = "waiting"]
    /\ le' = [le EXCEPT ![th] = [NoEntry EXCEPT !.behind = lock # 0]]
    /\ UNCHANGED <<now, timestamps, lock, tcur, tsleep, recorded>>
    /\ UNCHANGED <<repoVars, saveVars, runVars, crawlVars, ctVars, genVars, dorkVars>>

\* lines 16-33 up to the sleep: take the lock, read the clock, drop the old
\* timestamps; below the limit the entry is recorded and the lock released,
\* at the limit the thread goes to sleep holding the lock
Enter(th) ==
    /\ tpc[th] = "waiting"
    /\ LockFree(lock)
    /\ LET current_time == now
           kept == InWindow(timestamps, current_time)
           sleep_time == IF Len(kept) >= Calls
                         THEN SleepTime(kept, current_time) ELSE 0
       IN  IF Len(kept) >= Calls /\ sleep_time > 0
           THEN /\ timestamps' = kept
                /\ lock' = th
                /\ tpc' = [tpc EXCEPT ![th] = "sleeping"]
                /\ tcur' = [tcur EXCEPT ![th] = current_time]
                /\ tsleep' = [tsleep EXCEPT ![th] = sleep_time]
                /\ le' = [le EXCEPT ![th] = [@ EXCEPT !.t = current_time,
                                                      !.seen = recorded,
                                                      !.slept = sleep_time]]
                /\ UNCHANGED recorded
           ELSE /\ timestamps' = Append(kept, current_time)
                /\ recorded' = Append(recorded, current_time)
                /\ tpc' = [tpc EXCEPT ![th] = "out"]
                /\ le' = [le EXCEPT ![th] = [@ EXCEPT !.t = current_time,
                                                      !.seen = recorded,
                                                      !.slept = 0,
                                                      !.rec = current_time]]
                /\ UNCHANGED <<lock, tcur, tsleep>>
    /\ UNCHANGED now
    /\ UNCHANGED <<repoVars, saveVars, runVars, crawlVars, ctVars, genVars, dorkVars>>

\* lines 27-33: time.sleep returns once sleep_time has passed, the clock is
\* read again, the entry is recorded and the lock released
Wake(th) ==
    /\ tpc[th] = "sleeping"
    /\ now >= tcur[th] + tsleep[th]
    /\ LET current_time == now
       IN  /\ timestamps' = Append(timestamps, current_time)
           /\ recorded' = Append(recorded, current_time)
           /\ tcur' = [tcur EXCEPT ![th] = current_time]
           /\ le' = [le EXCEPT ![th] = [@ EXCEPT !.rec = current_time]]
    /\ lock' = IF lock = th THEN 0 ELSE lock
    /\ tpc' = [tpc EXCEPT ![th] = "out"]
    /\ UNCHANGED <<now, tsleep>>
    /\ UNCHANGED <<repoVars, saveVars, runVars, crawlVars, ctVars, genVars, dorkVars>>

\* the clock advances
Tick ==
    /\ now < MaxTime
    /\ now' = now + 1
    /\ UNCHANGED <<timestamps, lock, tpc, tcur, tsleep, recorded, le>>
    /\ UNCHANGED <<repoVars, saveVars, runVars, crawlVars, ctVars, genVars, dorkVars>>

(***************************************************************************)
(* Initial states and specifications                                       *)
(***************************************************************************)
RepoInit ==
    /\ domain_table = <<>>
    /\ crawler_logs = <<>>
    /\ domains_found = [c \in CrawlerNames |-> <<>>]
    /\ log_id = [c \in CrawlerNames |-> 0]

WritersIdle ==
    /\ wpc = [w \in Writers |-> "idle"]
    /\ wentry = [w \in Writers |->
                    BuildEntry(w, <<>>, [url |-> "u1", target_cse_name |-> "T1"])]
    /\ wcall = [w \in Writers |-> NoCall]
    /\ true_returns = <<>>
    /\ nsaves = 0

RunnerIdle ==
    /\ opc = "idle"
    /\ targets = <<>>
    /\ ci = 1
    /\ ti = 1
    /\ errors = <<>>
    /\ total_found = 0
    /\ rh = NoRun
    /\ dh = NoDiscovery
    /\ final_count = <<>>

\* RateLimiter.__init__, lines 9-13, and no thread inside __enter__
LimiterIdle ==
    /\ now = 0
    /\ timestamps = <<>>
    /\ lock = 0
    /\ tpc = [th \in Threads |-> "out"]
    /\ tcur = [th \in Threads |-> 0]
    /\ tsleep = [th \in Threads |-> 0]
    /\ recorded = <<>>
    /\ le = [th \in Threads |-> NoEntry]

CrawlIdle == crawl_out = NoCrawl

\* CertTransparencyCrawler.__init__, lines 16-22
CtIdle ==
    /\ cert_queue = <<>>
    /\ stop_monitoring = FALSE
    /\ retry_count = 0
    /\ ct_now = 0
    /\ c_pc = "idle"
    /\ c_timeout = FALSE
    /\ c_start = 0
    /\ c_wait_at = 0
    /\ c_discovered = <<>>
    /\ sub_pc = [k \in SubThreads |-> "unborn"]
    /\ sub_wake = [k \in SubThreads |-> 0]
    /\ cb_event = [k \in SubThreads |-> 0]
    /\ feed = [events |-> 0, breaks |-> 0, returns |-> 0]
    /\ queue_h = [pushed |-> <<>>, pusher |-> <<>>, pulled |-> <<>>,
                  dropped |-> 0]
    /\ crawl_h = NoCrawlRun
    /\ sub_h = [k \in SubThreads |-> NoMonitor]

GenIdle ==
    /\ proc = 1
    /\ gen_in = NoGen
    /\ gen_out = NoGen
    /\ prev_out = NoGen
    /\ DorkIdle

SaveInit == RepoInit /\ WritersIdle /\ RunnerIdle /\ LimiterIdle /\ CrawlIdle
            /\ CtIdle /\ GenIdle

SaveNext ==
    \/ \E w \in Writers, cand \in Candidates : SaveBegin(w, cand)
    \/ \E w \in Writers, fault \in BOOLEAN : SaveCommit(w, fault)

\* concurrent writers calling save_domain against one repository
SpecSave == SaveInit /\ [][SaveNext]_vars

RunInit == RepoInit /\ WritersIdle /\ RunnerIdle /\ LimiterIdle /\ CrawlIdle
            /\ CtIdle /\ GenIdle

RunNext ==
    \/ \E tl \in TargetLists : RunDiscovery(tl)
    \/ StartRun
    \/ CrawlTarget
    \/ EscapeLoop
    \/ FinishRun
    \/ EndDiscovery

\* the orchestrator running its sources one after another on one thread
SpecRun == RunInit /\ [][RunNext]_vars

RLInit == RepoInit /\ WritersIdle /\ RunnerIdle /\ LimiterIdle /\ CrawlIdle
            /\ CtIdle /\ GenIdle

RLNext ==
    \/ \E th \in Threads : Request(th)
    \/ \E th \in Threads : Enter(th)
    \/ \E th \in Threads : Wake(th)
    \/ Tick

\* threads entering one shared RateLimiter while the clock advances
SpecRL == RLInit /\ [][RLNext]_vars

CrawlInit == RepoInit /\ WritersIdle /\ RunnerIdle /\ LimiterIdle /\ CrawlIdle
            /\ CtIdle /\ GenIdle

CrawlNext ==
    \/ \E p \in Profiles, r \in SeqsUpTo(SampleUrls, MaxResults) :
          WebSearchCrawl(p, r)
    \/ \E p \in Profiles, r \in SeqsUpTo(SampleUrls, MaxResults) :
          DorkingCrawl(p, r)
    \/ \E p \in Profiles, v \in SeqsUpTo(SampleCertDomains, MaxResults),
          r \in SUBSET SampleCertDomains :
          WhoisCrawl(p, v, r, <<>>)
    \/ \E p \in Profiles, c \in SeqsUpTo(SampleCertDomains, MaxResults) :
          CertCrawl(p, <<c>>)
    \/ \E p \in Profiles, c \in SeqsUpTo(SampleTokens, MaxResults) :
          PasteCrawl(p, <<c>>)
    \/ \E p \in Profiles : SocialCrawl(p)
    \/ \E p \in Profiles, a \in SUBSET SampleProbes : TunnelCrawl(p, a)

\* each source's crawl called on a target profile, in any order
SpecCrawl == CrawlInit /\ [][CrawlNext]_vars

\* the registration source run once, on each list of variants with each
\* set of resolving names and each registration source over them
WhoisInit == CrawlInit

WhoisNext ==
    \E p \in Profiles, v \in SeqsUpTo(SampleCertDomains, MaxResults) :
        \E r \in SUBSET Range(v), g \in Registries(Range(v)) :
            /\ crawl_out = NoCrawl
            /\ WhoisCrawl(p, v, r, g)

SpecWhois == WhoisInit /\ [][WhoisNext]_vars

\* the certificate source run on one target with an empty domain table
CertRunInit == RepoInit /\ WritersIdle /\ RunnerIdle /\ LimiterIdle /\ CrawlIdle
               /\ CtIdle /\ GenIdle

CertRunNext ==
    \E p \in CertProfiles, c \in SeqsUpTo(CertNames, MaxResults) :
        CertRunTarget(p, <<c>>)

SpecCertRun == CertRunInit /\ [][CertRunNext]_vars

CtInit == RepoInit /\ WritersIdle /\ RunnerIdle /\ LimiterIdle /\ CrawlIdle
            /\ CtIdle /\ GenIdle

CtNext ==
    \/ StartCrawl
    \/ ConsumerLoop
    \/ PullItem
    \/ PullEmpty
    \/ JoinReturn
    \/ \E k \in SubThreads : SubLoop(k)
    \/ \E k \in SubThreads : FeedMessage(k)
    \/ \E k \in SubThreads : CallbackPut(k)
    \/ \E k \in SubThreads : FeedRaises(k)
    \/ \E k \in SubThreads : FeedReturns(k)
    \/ \E k \in SubThreads : SubWake(k)
    \/ CtTick

\* crawl called on one instance time after time, its subscriber threads and
\* the feed
SpecCT == CtInit /\ [][CtNext]_vars

\* a step of the program itself: all but the arrival of a message and the
\* end of the feed client's call, which are the feed's to take
ProgramStep ==
    \/ ConsumerLoop \/ PullItem \/ PullEmpty \/ JoinReturn \/ CtTick
    \/ \E k \in SubThreads : SubLoop(k) \/ CallbackPut(k) \/ SubWake(k)

\* the same, with the threads scheduled and the clock advancing: while a
\* step of the program is possible, one is taken
SpecCTLive == SpecCT /\ WF_vars(ProgramStep)

\* generate_all_variants called once, on each seed with each cap
GenInit ==
    /\ RepoInit /\ WritersIdle /\ RunnerIdle /\ LimiterIdle /\ CrawlIdle /\ CtIdle
    /\ DorkIdle
    /\ proc = 1
    /\ \E domain \in Seeds : \E max_variants \in CapsFor(domain) :
          gen_in = [domain |-> domain, max_variants |-> max_variants,
                    variants |-> {}, proc |-> 1]
    /\ gen_out = NoGen
    /\ prev_out = NoGen

GenNext == Generate

SpecGen == GenInit /\ [][GenNext]_vars

\* DorkingCrawler.crawl called for one target after another on one instance
DorkInit ==
    /\ RepoInit /\ WritersIdle /\ RunnerIdle /\ LimiterIdle /\ CrawlIdle /\ CtIdle
    /\ GenIdle

DorkNext ==
    \/ \E n \in 1..MaxQueries : StartDorkCrawl(n)
    \/ \E signal \in [SearchEngines -> SearchSignals] : DorkQuery(signal)
    \/ DorkReturn

SpecDork == DorkInit /\ [][DorkNext]_vars

\* generate_idn_variants called once, on each domain with each cap
IdnInit ==
    /\ RepoInit /\ WritersIdle /\ RunnerIdle /\ LimiterIdle /\ CrawlIdle /\ CtIdle
    /\ DorkIdle
    /\ proc = 1
    /\ \E domain \in IdnSeeds : \E max_variants \in 0..MaxIdnCap :
          gen_in = [domain |-> domain, max_variants |-> max_variants,
                    variants |-> {}, proc |-> 1]
    /\ gen_out = NoGen
    /\ prev_out = NoGen

IdnNext == GenerateIdn

SpecIdn == IdnInit /\ [][IdnNext]_vars

\* generate_all_variants called twice with the same arguments, in one
\* process or in two
TwiceInit ==
    /\ GenInit
    /\ gen_in.max_variants \in (0..MaxCap) \cup {DefaultCap}

TwiceNext ==
    \/ Generate
    \/ RestartProcess
    \/ GenerateAgain

SpecGenTwice == TwiceInit /\ [][TwiceNext]_vars

(***************************************************************************)
(* Claims about save_domain (checked under SpecSave)                       *)
(***************************************************************************)
\* what trim + lowercase is expected to give for each sample spelling
ExpectedKey(raw) ==
    CASE raw = EX_co    -> ex_co
      [] raw = ex_co_sp -> ex_co
      [] raw = NoneStr  -> <<>>
      [] OTHER          -> raw

\* which sample spellings name a syntactically valid domain
ExpectedValid(raw) == raw \in {ex_co, EX_co, ex_co_sp, ab_co}

\* rows of a table stored under the key of a spelling
RowsFor(table, raw) ==
    {i \in DOMAIN table : ExpectedKey(table[i].domain_name) = ExpectedKey(raw)}

Returned(w) == wcall[w].ret \notin {"none", "pending"}

\* C1: the domain table never holds two records with the same normalized
\* domain_name, and a save whose normalized name is already present returns
\* False and leaves the table as it was.
C1_UniqueDomainName ==
    /\ \A i, j \in DOMAIN domain_table :
          i # j => ExpectedKey(domain_table[i].domain_name)
                     # ExpectedKey(domain_table[j].domain_name)
    /\ \A w \in Writers :
          (Returned(w) /\ RowsFor(wcall[w].before, wcall[w].raw) # {})
             => /\ wcall[w].ret = "False"
                /\ wcall[w].after = wcall[w].before

\* a duplicate spelled differently from the stored record was dropped
C1_Witness ==
    \E w \in Writers :
        /\ wcall[w].ret = "False"
        /\ wcall[w].raw = EX_co
        /\ RowsFor(wcall[w].before, EX_co) # {}
        /\ RowsFor(domain_table, EX_co) # {}

\* C2: save_domain is idempotent on the normalized name: a save returns True
\* exactly when its trimmed, lowercased name is valid and not yet stored (and
\* the repository accepts the insert), every later save of any spelling
\* returns False, and exactly one record is stored under the normalized name.
C2_IdempotentSave ==
    /\ \A raw \in Spellings :
          /\ Cardinality({i \in DOMAIN true_returns :
                            ExpectedKey(true_returns[i]) = ExpectedKey(raw)})
               = Cardinality(RowsFor(domain_table, raw))
          /\ Cardinality(RowsFor(domain_table, raw)) <= 1
    /\ \A w \in Writers :
          Returned(w) =>
             /\ (wcall[w].ret = "True")
                  <=> /\ ExpectedValid(wcall[w].raw)
                      /\ RowsFor(wcall[w].before, wcall[w].raw) = {}
                      /\ ~wcall[w].fault
             /\ (wcall[w].ret = "True") =>
                   wcall[w].after =
                      Append(wcall[w].before,
                             [domain_name         |-> ExpectedKey(wcall[w].raw),
                              url                 |-> wcall[w].url,
                              target_cse_name     |-> "T1",
                              source_of_detection |-> w])

\* "EX.co" was saved first, then "ex.co " was rejected as its duplicate
C2_Witness ==
    /\ true_returns = <<EX_co>>
    /\ \E w \in Writers :
          /\ wcall[w].raw = ex_co_sp
          /\ wcall[w].ret = "False"
          /\ Cardinality(RowsFor(domain_table, ex_co)) = 1

\* C3: two writers that both passed the existence check for the same name
\* before either committed: no exception leaves save_domain, at most one
\* returns True (exactly one when the repository fails neither insert for
\* another reason), and the table holds one record per True.
C3_ConcurrentSave ==
    \A w1, w2 \in Writers :
        ( /\ w1 # w2
          /\ wcall[w1].raced /\ wcall[w2].raced
          /\ wcall[w1].norm = wcall[w2].norm
          /\ Returned(w1) /\ Returned(w2) )
        => LET trues == {w \in {w1, w2} : wcall[w].ret = "True"}
           IN  /\ wcall[w1].ret \in {"True", "False"}
               /\ wcall[w2].ret \in {"True", "False"}
               /\ Cardinality(trues) <= 1
               /\ (~wcall[w1].fault /\ ~wcall[w2].fault) => Cardinality(trues) = 1
               /\ Cardinality(RowsFor(domain_table, wcall[w1].norm))
                    = Cardinality(trues)

\* both passed the check, one commit won, the other was rejected by the index
C3_Witness ==
    \E w1, w2 \in Writers :
        /\ w1 # w2
        /\ wcall[w1].raced /\ wcall[w2].raced
        /\ wcall[w1].norm = wcall[w2].norm
        /\ wcall[w1].ret = "True" /\ wcall[w2].ret = "False"
        /\ ~wcall[w1].fault /\ ~wcall[w2].fault
        /\ Cardinality(RowsFor(domain_table, wcall[w1].norm)) = 1

(***************************************************************************)
(* Claims about run and run_discovery (checked under SpecRun)              *)
(***************************************************************************)
Upto(n) == [i \in 1..n |-> i]

\* C5: an exception raised while crawling one target is caught, adds one
\* message to the error list, and the remaining targets are still crawled;
\* after the last target the RunLog is 'completed' with errors_encountered
\* equal to the number of targets that raised.
C5_PerTargetErrorIsolated ==
    /\ opc = "run" =>
          /\ Len(errors) = Len(rh.raised_at)
          /\ rh.crawled = Upto(ti - 1)
    /\ rh.outcome = "returned" =>
          /\ rh.crawled = Upto(Len(rh.cse_targets))
          /\ crawler_logs[rh.log].status = "completed"
          /\ crawler_logs[rh.log].errors_encountered = Len(rh.raised_at)
          /\ rh.summary_errors = Len(rh.raised_at)

\* the first of two targets raised, the second was crawled and saved a domain
C5_Witness ==
    /\ rh.outcome = "returned"
    /\ rh.raised_at = <<1>>
    /\ rh.crawled = <<1, 2>>
    /\ Len(domains_found[rh.crawler]) > rh.found_before
    /\ crawler_logs[rh.log].errors_encountered = 1

\* the targets run() reaches before a target without a name, if there is one
FirstNameless(tl) ==
    IF \E i \in DOMAIN tl : ~tl[i].has_name
    THEN CHOOSE i \in DOMAIN tl :
            /\ ~tl[i].has_name
            /\ \A j \in DOMAIN tl : ~tl[j].has_name => i <= j
    ELSE 0

\* C6: an exception that escapes the per-target loop finalizes the RunLog as
\* 'failed' and is re-raised to the caller; run returns no summary then.
C6_EscapeFinalizesFailed ==
    rh.outcome \in {"returned", "raised"} =>
       IF FirstNameless(rh.cse_targets) # 0
       THEN /\ rh.outcome = "raised"
            /\ crawler_logs[rh.log].status = "failed"
            /\ crawler_logs[rh.log].errors_encountered = 1
            /\ rh.summary_found = -1
            /\ rh.summary_errors = -1
            /\ rh.crawled = Upto(FirstNameless(rh.cse_targets) - 1)
            /\ rh.crawler \in dh.run_raised
       ELSE /\ rh.outcome = "returned"
            /\ crawler_logs[rh.log].status = "completed"
            /\ rh.summary_found >= 0

\* the second target had no name: the run raised after crawling the first
C6_Witness ==
    /\ rh.outcome = "raised"
    /\ rh.crawled = <<1>>
    /\ crawler_logs[rh.log].status = "failed"

RECURSIVE SumFound(_)
SumFound(cs) ==
    IF cs = <<>> THEN 0
    ELSE (IF Head(cs) \in dh.run_raised THEN 0 ELSE Len(domains_found[Head(cs)]))
         + SumFound(Tail(cs))

\* C7: run_discovery invokes every configured source's run exactly once, in
\* configuration order, whether or not an earlier run raised; a source whose
\* run raised adds 0 to the returned total.
C7_EverySourceRuns ==
    /\ opc = "loop" => dh.invoked = SubSeq(crawlers, 1, ci - 1)
    /\ opc = "run" => dh.invoked = SubSeq(crawlers, 1, ci)
    /\ dh.returned # -1 =>
          /\ dh.invoked = crawlers
          /\ dh.returned = SumFound(crawlers)

\* the first source saved a domain and then raised; the later sources still
\* ran and the first one added nothing to the total
C7_Witness ==
    /\ dh.returned = 0
    /\ dh.invoked = crawlers
    /\ crawlers[1] \in dh.run_raised
    /\ Len(domains_found[crawlers[1]]) > 0

\* C8: every run creates one 'running' RunLog row; when the run has
\* returned or raised the row has been finalized once, to 'completed' or
\* 'failed'; a finalized row is never written again, also not by a later
\* run of the same crawler instance.
C8_RunLogLifecycle ==
    /\ Len(crawler_logs) = Len(final_count)
    /\ \A id \in DOMAIN crawler_logs :
          /\ final_count[id] <= 1
          /\ (crawler_logs[id].status = "running") <=> (final_count[id] = 0)
          /\ crawler_logs[id].status \in {"running", "completed", "failed"}
          /\ crawler_logs[id].status = "running" => (opc = "run" /\ id = rh.log)
    /\ opc = "run" =>
          /\ rh.log = Len(crawler_logs)
          /\ crawler_logs[rh.log].status = "running"
          /\ crawler_logs[rh.log].crawler_name = crawlers[ci]

\* the same crawler instance has run twice and both of its rows are final
C8_Witness ==
    \E a, b \in DOMAIN crawler_logs :
        /\ a < b
        /\ crawler_logs[a].crawler_name = crawler_logs[b].crawler_name
        /\ crawler_logs[a].status = "failed"
        /\ crawler_logs[b].status = "completed"
        /\ final_count[a] = 1 /\ final_count[b] = 1

(***************************************************************************)
(* Claims about the sources' crawl (checked under SpecCrawl)               *)
(***************************************************************************)
\* the name is one of the target's own domains or lies below one of them
OwnDomain(name, target_cse) ==
    \E legit \in {target_cse.primary_domain}
                   \cup {target_cse.additional_domains[i] :
                            i \in DOMAIN target_cse.additional_domains} :
        \/ name = legit
        \/ /\ Len(name) > Len(legit)
           /\ name[Len(name) - Len(legit)] = "."
           /\ SubSeq(name, Len(name) - Len(legit) + 1, Len(name)) = legit

\* C4: for every source and every target profile, crawl returns no candidate
\* whose domain_name equals the target's primary_domain or one of its
\* additional_domains, or ends with "." followed by one of them.
C4_NoOwnDomainReturned ==
    \A i \in DOMAIN crawl_out.discovered :
        ~OwnDomain(crawl_out.discovered[i].domain_name, crawl_out.cse)

(***************************************************************************)
(* Claims about RateLimiter (checked under SpecRL)                         *)
(***************************************************************************)
\* entries of a history h that lie within the window ending at time t
Within(h, t) == {j \in DOMAIN h : t - h[j] < Period}

\* C9: whenever __enter__ records an entry, the entries recorded within the
\* last `period` time units, the new one included, number at most `calls`;
\* the timestamp list is only touched under the lock, so it holds every
\* entry still in the window, each once.
C9_AtMostCallsPerPeriod ==
    /\ \A k \in DOMAIN recorded :
          Cardinality(Within(SubSeq(recorded, 1, k), recorded[k])) <= Calls
    /\ \E n \in 0..Len(recorded) :
          /\ timestamps = SubSeq(recorded, n + 1, Len(recorded))
          /\ \A j \in 1..n : now - recorded[j] >= Period
    /\ Cardinality({th \in Threads : tpc[th] = "sleeping"}) <= 1
    /\ \A th \in Threads : tpc[th] = "sleeping" <=> lock = th

\* a thread asked while another slept holding the lock, and was itself made
\* to sleep; the window of its entry holds exactly `calls` entries
C9_Witness ==
    \E th \in Threads :
        /\ le[th].behind
        /\ le[th].slept > 0
        /\ le[th].rec # -1
        /\ recorded[Len(recorded)] = le[th].rec
        /\ Cardinality(Within(recorded, le[th].rec)) = Calls

\* the oldest entry of a history that lies in the window ending at t
OldestWithin(h, t) ==
    h[CHOOSE j \in Within(h, t) : \A i \in Within(h, t) : j <= i]

\* C10: with `calls` entries in the window, an entry attempted at time t
\* sleeps period - (t - oldest entry in the window), which is positive and
\* at most `period`, and is recorded only after that; with fewer entries in
\* the window it does not sleep and is recorded at t.
C10_WaitIsRemainingWindow ==
    \A th \in Threads :
        le[th].rec # -1 =>
            IF Cardinality(Within(le[th].seen, le[th].t)) >= Calls
            THEN /\ le[th].slept
                      = Period - (le[th].t - OldestWithin(le[th].seen, le[th].t))
                 /\ le[th].slept > 0
                 /\ le[th].slept <= Period
                 /\ le[th].rec >= le[th].t + le[th].slept
            ELSE /\ le[th].slept = 0
                 /\ le[th].rec = le[th].t

\* the (calls+1)-th entry of a window came one time unit after the oldest
\* one and was recorded exactly period - 1 later
C10_Witness ==
    \E th \in Threads :
        /\ le[th].rec # -1
        /\ Cardinality(Within(le[th].seen, le[th].t)) = Calls
        /\ le[th].t = OldestWithin(le[th].seen, le[th].t) + 1
        /\ le[th].slept = Period - 1
        /\ le[th].rec = le[th].t + le[th].slept

(***************************************************************************)
(* Claims about the certificate-stream source (checked under SpecCT)       *)
(***************************************************************************)
\* C11: the subscriber callback never blocks on the queue: it reaches its
\* put only while the queue has room, an event that arrives while the queue
\* holds its full capacity is dropped (the queue is left as it was), the
\* queue never holds more than its capacity, and the events pulled so far
\* followed by the events still queued are exactly the events pushed, in
\* the order they were pushed.
C11_QueueBoundedFifo ==
    /\ [](/\ Len(cert_queue) <= QueueCap
          /\ \A k \in SubThreads :
                sub_pc[k] = "cb_put" => Len(cert_queue) < QueueCap
          /\ queue_h.pulled \o cert_queue = queue_h.pushed
          /\ \A i \in 1..Len(queue_h.pushed) : \A j \in 1..Len(queue_h.pushed) :
                i < j => queue_h.pushed[i] < queue_h.pushed[j])
    /\ [][(/\ feed'.events = feed.events + 1
           /\ ~stop_monitoring
           /\ Len(cert_queue) = QueueCap)
          => (/\ cert_queue' = cert_queue
              /\ queue_h'.dropped = queue_h.dropped + 1
              /\ \A k \in SubThreads : sub_pc'[k] # "cb_put")]_vars

\* an event was dropped at a full queue and two queued events were pulled
C11_Witness ==
    /\ queue_h.dropped > 0
    /\ Len(queue_h.pulled) >= 2
    /\ Len(queue_h.pushed) >= QueueCap

\* C12: a crawl during which the subscriber put no event on the queue has
\* returned no later than the inactivity ceiling plus one pull timeout plus
\* the join wait after it started, which is less than the monitoring
\* duration, and it has returned an empty list.
C12_SilentCrawlReturnsEmptyEarly ==
    (crawl_h.ret_at >= 0 /\ crawl_h.events_in = 0)
        => /\ crawl_h.ret_at - crawl_h.start
                  <= InactivityCeiling + PullTimeout + JoinTimeout
           /\ InactivityCeiling + PullTimeout + JoinTimeout < MonitoringDuration
           /\ crawl_h.result = <<>>

\* the number of back-to-back timed-out pulls from the start of a crawl
\* after which the inactivity ceiling is passed
EmptyPullsToExit == (InactivityCeiling \div PullTimeout) + 1

\* C13: the consumer loop has ended before the monitoring duration only
\* after as many consecutive timed-out pulls as it takes to pass the
\* inactivity ceiling; in particular a crawl that had received certificates
\* was not ended by a single timed-out pull.
C13_EarlyExitNeedsConsecutiveEmptyPulls ==
    crawl_h.early_exit
        => /\ crawl_h.exit_empties >= EmptyPullsToExit
           /\ crawl_h.received > 0 => crawl_h.exit_empties > 1

\* C14: when a crawl has returned, the subscriber thread it started is no
\* longer alive: the thread saw the stop flag and ended within the join.
C14_NoSubscriberOutlivesCrawl ==
    crawl_h.ret_at >= 0 => ~crawl_h.alive_at_return

\* C15 (as the statement has it): one execution of _monitor_ct_logs invokes
\* the feed client at most max_retries times, a later wait of a row of
\* failures is longer than an earlier one, and after the last allowed
\* failure the stop flag is set and the thread has ended.
C15_AtMostMaxRetriesInvocations ==
    \A k \in SubThreads :
        /\ sub_h[k].invocations <= MaxRetries
        /\ \A i \in 1..Len(sub_h[k].waits) : \A j \in 1..Len(sub_h[k].waits) :
              sub_h[k].waits[i].failures < sub_h[k].waits[j].failures
                  => sub_h[k].waits[i].wait < sub_h[k].waits[j].wait
        /\ sub_h[k].exhausted => stop_monitoring /\ sub_pc[k] = "dead"

\* C15: within one execution of _monitor_ct_logs the feed client fails at
\* most max_retries times in a row without a message handled in between and
\* is not invoked again after that; the wait before a retry is the unit
\* times the number of failures in a row so far; after the last allowed
\* failure the stop flag is set and the thread has ended.
C15_BoundedConsecutiveRetries ==
    \A k \in SubThreads :
        /\ sub_h[k].failed_in_row <= MaxRetries
        /\ sub_pc[k] \in {"listen", "cb_put", "backoff"}
              => sub_h[k].failed_in_row < MaxRetries
        /\ \A i \in 1..Len(sub_h[k].waits) :
              /\ sub_h[k].waits[i].failures \in 1..(MaxRetries - 1)
              /\ sub_h[k].waits[i].wait = BackoffUnit * sub_h[k].waits[i].failures
        /\ sub_h[k].exhausted
              => /\ stop_monitoring
                 /\ sub_pc[k] = "dead"
                 /\ sub_h[k].failed_in_row = MaxRetries
        /\ sub_h[k].failed_in_row = MaxRetries => sub_h[k].exhausted

\* a thread waited longer before its second retry than before its first,
\* failed a third time in a row and gave up
C15_Witness ==
    \E k \in SubThreads :
        /\ sub_h[k].exhausted
        /\ Len(sub_h[k].waits) >= 2
        /\ sub_h[k].waits[1].wait < sub_h[k].waits[2].wait

\* C16: no pull from the queue begins after the subscriber of the crawl has
\* exhausted its retries and set the stop flag.
C16_ConsumerStopsOnFlag ==
    ~crawl_h.pulled_after_stop

\* C17: a crawl that has started returns: it begins no pull once the
\* monitoring duration has elapsed, and while it runs, and when it returns,
\* no more than the monitoring duration plus one pull timeout plus the join
\* wait has passed since it started.
C17_CrawlTerminates ==
    /\ [](/\ c_pc = "pulling" => c_wait_at - c_start < MonitoringDuration
          /\ c_pc # "idle"
                => ct_now - c_start
                       <= MonitoringDuration + PullTimeout + JoinTimeout
          /\ crawl_h.ret_at >= 0
                => crawl_h.ret_at - crawl_h.start
                       <= MonitoringDuration + PullTimeout + JoinTimeout)
    /\ (c_pc # "idle") ~> (c_pc = "idle")

\* a crawl was kept pulling by arriving certificates until the monitoring
\* duration had elapsed, and returned with its subscriber still listening
C17_Witness ==
    /\ crawl_h.ret_at >= 0
    /\ ~crawl_h.early_exit
    /\ crawl_h.loop_end - crawl_h.start >= MonitoringDuration
    /\ crawl_h.alive_at_return

(***************************************************************************)
(* Claims about the variant generator (checked under SpecGen, SpecGenTwice) *)
(***************************************************************************)
\* C18: the set generate_all_variants returns does not contain the seed
\* domain it was called with.
C18_SeedNotAVariant ==
    gen_out # NoGen => gen_out.domain \notin gen_out.variants

\* C19: the set generate_all_variants returns has at most max_variants
\* elements, all of them from the union of the operators, and it is the
\* whole union when the union has at most max_variants elements.
C19_AtMostMaxVariants ==
    gen_out # NoGen
        => /\ Cardinality(gen_out.variants) <= gen_out.max_variants
           /\ gen_out.variants \subseteq UnionOf[gen_out.domain]
           /\ Cardinality(UnionOf[gen_out.domain]) <= gen_out.max_variants
                 => gen_out.variants = UnionOf[gen_out.domain]

\* a call whose cap was one below the size of the union returned a
\* truncated set of exactly that many variants
C19_Witness ==
    /\ gen_out # NoGen
    /\ gen_out.max_variants > MaxCap
    /\ gen_out.max_variants < Cardinality(UnionOf[gen_out.domain])
    /\ Cardinality(gen_out.variants) = gen_out.max_variants

\* C20: two calls of generate_all_variants with the same seed domain and
\* the same max_variants return the same set.
C20_SameArgumentsSameSet ==
    (/\ prev_out # NoGen
     /\ prev_out.domain = gen_out.domain
     /\ prev_out.max_variants = gen_out.max_variants)
        => prev_out.variants = gen_out.variants

(***************************************************************************)
(* Further claims about save_domain (checked under SpecSave)               *)
(***************************************************************************)
\* C24: save_domain never raises, and a call ends in one of two ways: it
\* returns True having appended exactly one complete record (normalized
\* name, url, target, source) and the name to its crawler's domains_found,
\* or it returns False with the domain table and domains_found as they
\* were; the table changes in no other step.
C24_SaveAllOrNothing ==
    /\ [](\A w \in Writers :
             wcall[w].ret \in {"none", "pending", "True", "False"})
    /\ [][/\ \A w \in Writers :
               (wcall'[w] # wcall[w] /\ wcall'[w].ret # "pending")
                  => \/ /\ wcall'[w].ret = "True"
                        /\ ExpectedValid(wcall'[w].raw)
                        /\ domain_table' =
                             Append(domain_table,
                                [domain_name         |-> ExpectedKey(wcall'[w].raw),
                                 url                 |-> wcall'[w].url,
                                 target_cse_name     |-> "T1",
                                 source_of_detection |-> w])
                        /\ domains_found' =
                             [domains_found EXCEPT
                                ![w] = Append(@, ExpectedKey(wcall'[w].raw))]
                     \/ /\ wcall'[w].ret = "False"
                        /\ domain_table' = domain_table
                        /\ domains_found' = domains_found
          /\ (domain_table' # domain_table \/ domains_found' # domains_found)
                => \E w \in Writers :
                      wcall'[w] # wcall[w] /\ wcall'[w].ret = "True"]_vars

\* with a record stored, an insert failed in the repository and the call
\* returned False; a call without a name and one with an invalid name too
C24_Witness ==
    /\ domain_table # <<>>
    /\ \E w \in Writers :
          /\ wcall[w].fault
          /\ wcall[w].ret = "False"
          /\ ExpectedValid(wcall[w].raw)
          /\ RowsFor(domain_table, wcall[w].raw) = {}
    /\ \E w \in Writers :
          /\ wcall[w].raw \in {NoneStr, <<>>, bad_name}
          /\ wcall[w].ret = "False"

(***************************************************************************)
(* Further claims about the certificate-stream source (under SpecCT)       *)
(***************************************************************************)
\* C27: every crawl began with the stop flag clear and the retry count at
\* zero, and by the time it returned the subscriber thread it started had
\* called the feed client at least once.
C27_CrawlStartsWithFreshFlags ==
    /\ crawl_h.n >= 1
          => ~crawl_h.stop_at_start /\ crawl_h.retries_at_start = 0
    /\ crawl_h.ret_at >= 0 => sub_h[crawl_h.n].invocations >= 1

\* C28: every event a crawl pulled from the queue had been put there by
\* the subscriber thread that crawl started.
C28_PulledEventsAreOwn ==
    crawl_h.pulled_from \subseteq {crawl_h.n}

(***************************************************************************)
(* Claims about the certificate source run through run() (SpecCertRun)     *)
(***************************************************************************)
\* the name is, letter case apart, one of the target's own domains or lies
\* below one of them
OwnDomainAnyCase(name, target_cse) ==
    OwnDomain(StrLower(name),
              [primary_domain |-> StrLower(target_cse.primary_domain),
               additional_domains |->
                   [i \in DOMAIN target_cse.additional_domains |->
                       StrLower(target_cse.additional_domains[i])]])

\* C29: after the certificate source was run on a target, no persisted
\* record has a domain_name that equals, letter case apart, the target's
\* primary_domain or one of its additional domains, or lies below one.
C29_NoOwnDomainPersisted ==
    \A i \in DOMAIN domain_table :
        ~OwnDomainAnyCase(domain_table[i].domain_name, crawl_out.cse)

(***************************************************************************)
(* Claims about the IDN generator (checked under SpecIdn)                  *)
(***************************************************************************)
\* C21: the set generate_idn_variants returns has at most max_variants
\* elements, and within each of its two loops it produced the variants of
\* a character position further left before those of one further right.
C21_IdnStopsAtCap ==
    gen_out # NoGen
        => /\ Cardinality(gen_out.variants) <= gen_out.max_variants
           /\ \A a, b \in DOMAIN gen_out.adds :
                 (a < b /\ gen_out.adds[a].loop = gen_out.adds[b].loop)
                    => gen_out.adds[a].pos <= gen_out.adds[b].pos

\* the same for caps of at least one
IdnStopsAtPositiveCap == gen_out.max_variants >= 1 => C21_IdnStopsAtCap

(***************************************************************************)
(* Claims about the registration source (checked under SpecWhois)          *)
(***************************************************************************)
\* the variants C22 expects crawl to emit: those that resolve, have a record
\* in the registration source, and whose creation date is at most 90 days
\* back, missing or unparseable
ExpectedWhoisHits(variants, resolving, registry) ==
    {variants[i] : i \in {j \in DOMAIN variants :
        /\ variants[j] \in resolving
        /\ variants[j] \in DOMAIN registry
        /\ \/ registry[variants[j]].creation_date # "date"
           \/ registry[variants[j]].age_days <= 90}}

\* C22: WHOISCrawler.crawl emits a variant exactly when it resolves, the
\* registration source has a record for it and its creation date is recent
\* or unknown, and it looks up no variant that does not resolve.
C22_EmitsResolvingRecentVariants ==
    crawl_out.source = "whois"
        => /\ {crawl_out.discovered[i].domain_name : i \in DOMAIN crawl_out.discovered}
                = ExpectedWhoisHits(crawl_out.input[1], crawl_out.input[2],
                                    crawl_out.input[3])
           /\ crawl_out.lookups \subseteq crawl_out.input[2]

\* what the code does instead: no variant is emitted and none is looked up
WhoisEmitsNothing ==
    crawl_out.source = "whois"
        => crawl_out.discovered = <<>> /\ crawl_out.lookups = {}

(***************************************************************************)
(* Claims about the dorking source's engines (checked under SpecDork)      *)
(***************************************************************************)
\* C23: an engine that has handed back a CAPTCHA or empty result is not
\* queried again in the run, every other engine is queried with every
\* query (Google while under its limit), and Google is queried at most
\* google_query_limit times in one crawl.
C23_SignalledEngineNotQueriedAgain ==
    /\ dork_h.queried \cap dork_h.signalled_before = {}
    /\ dork_h.queried # {}
          => (SearchEngines \ dork_h.signalled_before) \ {"google"}
                \subseteq dork_h.queried
    /\ dork_h.google_queries <= google_query_limit

\* the part the code implements: Google is not queried after its signal and
\* at most google_query_limit times per crawl, the two other engines are
\* queried with every query
OnlyGoogleIsDisabled ==
    /\ "google" \notin dork_h.queried \cap dork_h.signalled_before
    /\ dork_h.queried # {} => {"bing", "duckduckgo"} \subseteq dork_h.queried
    /\ dork_h.google_queries <= google_query_limit
    /\ ~google_enabled <=> "google" \in dork_h.signalled

(***************************************************************************)
(* Claims about the order of saves and the run's counts (under SpecRun)    *)
(***************************************************************************)
\* the table expected after the candidates were saved one by one, first to
\* last: a candidate is inserted when its name is valid, no record is under
\* its key yet and the repository does not fail
RECURSIVE InOrderInserts(_, _, _, _)
InOrderInserts(table, source, discovered, faults) ==
    IF discovered = <<>> THEN table
    ELSE LET d == Head(discovered)
             fresh == /\ ExpectedValid(d.domain_name)
                      /\ RowsFor(table, d.domain_name) = {}
                      /\ ~Head(faults)
             row == [domain_name |-> ExpectedKey(d.domain_name), url |-> d.url,
                     target_cse_name |-> d.target_cse_name,
                     source_of_detection |-> source]
         IN  InOrderInserts(IF fresh THEN Append(table, row) ELSE table,
                            source, Tail(discovered), Tail(faults))

\* a pass of run()'s loop whose crawl returned
CrawlReturned ==
    /\ Len(rh'.crawled) = Len(rh.crawled) + 1
    /\ rh'.raised_at = rh.raised_at

\* a pass of run()'s loop whose crawl raised
CrawlRaised ==
    /\ Len(rh'.crawled) = Len(rh.crawled) + 1
    /\ rh'.raised_at # rh.raised_at

\* C25: the candidates of a crawl are saved in the order crawl returned
\* them, target after target in list order, and a record once persisted
\* keeps its fields and source whatever is saved under its name later, by
\* the same source or by a source run after it.
C25_SavedInCrawlOrderFirstWins ==
    [][/\ CrawlReturned =>
            /\ domain_table' = InOrderInserts(domain_table, rh'.crawler,
                                              rh'.last_discovered, rh'.last_faults)
            /\ rh'.crawled = Append(rh.crawled, Len(rh.crawled) + 1)
       /\ \A i \in DOMAIN domain_table :
            i \in DOMAIN domain_table' /\ domain_table'[i] = domain_table[i]
      ]_vars

\* the second source returned two candidates, the first under a new name
\* and the second under the name the first source had stored: the table
\* holds the first source's record and behind it the new one
C25_Witness ==
    /\ rh.crawler = crawlers[2]
    /\ Len(rh.last_discovered) = 2
    /\ rh.last_faults = <<FALSE, FALSE>>
    /\ Len(domain_table) = 2
    /\ domain_table[1].source_of_detection = crawlers[1]
    /\ domain_table[2].source_of_detection = crawlers[2]
    /\ ExpectedKey(rh.last_discovered[2].domain_name) = domain_table[1].domain_name
    /\ ExpectedKey(rh.last_discovered[1].domain_name) = domain_table[2].domain_name

\* C30: when crawl raises for a target nothing is persisted for it and one
\* error is recorded; when it returns, a storage failure on one candidate
\* leaves the error list as it was and every later candidate with a valid
\* name is under its key in the table afterwards; the table changes in no
\* other step.
C30_SaveAfterCrawlFailuresSkipped ==
    [][/\ CrawlRaised =>
            /\ domain_table' = domain_table
            /\ Len(errors') = Len(errors) + 1
       /\ CrawlReturned =>
            /\ errors' = errors
            /\ \A j \in DOMAIN rh'.last_discovered :
                 (ExpectedValid(rh'.last_discovered[j].domain_name)
                      /\ ~rh'.last_faults[j])
                    => RowsFor(domain_table', rh'.last_discovered[j].domain_name) # {}
       /\ domain_table' # domain_table => CrawlReturned
      ]_vars

\* the insert of the first candidate failed and the second candidate was
\* stored, with no error recorded for the run
C30_Witness ==
    /\ Len(rh.last_discovered) = 2
    /\ rh.last_faults = <<TRUE, FALSE>>
    /\ ExpectedKey(rh.last_discovered[1].domain_name)
          # ExpectedKey(rh.last_discovered[2].domain_name)
    /\ domain_table # <<>>
    /\ domain_table[Len(domain_table)].url = rh.last_discovered[2].url
    /\ domain_table[Len(domain_table)].domain_name
          = ExpectedKey(rh.last_discovered[2].domain_name)
    /\ RowsFor(domain_table, rh.last_discovered[1].domain_name) = {}
    /\ errors = <<>>
    /\ rh.raised_at = <<>>

\* C26: the domains_discovered of a finalized run log, and the domains_found
\* of the summary run returns, equal the number of records inserted during
\* that run, also on a crawler instance that has run before.
C26_CountIsInsertsOfThisRun ==
    /\ rh.outcome \in {"returned", "raised"}
          => crawler_logs[rh.log].domains_discovered
                = Len(domain_table) - rh.table_before
    /\ rh.outcome = "returned"
          => rh.summary_found = Len(domain_table) - rh.table_before

\* what the code reports instead: every insert of the instance so far
CountIsInsertsOfTheInstance ==
    /\ rh.outcome \in {"returned", "raised"}
          => crawler_logs[rh.log].domains_discovered
                = Cardinality({i \in DOMAIN domain_table :
                      domain_table[i].source_of_detection = rh.crawler})
    /\ rh.outcome = "returned"
          => rh.summary_found
                = Cardinality({i \in DOMAIN domain_table :
                      domain_table[i].source_of_detection = rh.crawler})

====
